---- MODULE Spec2Model ----
(***************************************************************************)
(* zfsbackrest: the repository manifest (Store), the backup and delete     *)
(* finite-state machines that read-modify-write it, and the remote object  *)
(* store and local snapshots they act on.                                  *)
(*                                                                         *)
(* One process at a time operates on the repository (global lock).  A      *)
(* process loads the manifest (NewRunnerFromExistingRepository), runs one  *)
(* command and exits; it can be killed at any point (Crash), which loses   *)
(* the in-memory Store and keeps the durable manifest, the remote objects  *)
(* and the local snapshots.                                                *)
(***************************************************************************)
EXTENDS Integers, Sequences, FiniteSets, TLC

\* ------------------------------------------------------------------ bounds
\* Backup IDs are ULIDs made by ulid.Make(): fresh and increasing. 1..MaxId.
MaxId == 3
\* The retry policies of the FSM runtime checked on its own: MaxRetries up to
\* RetriesBound, WaitIncrements up to IncrementBound and MaxWait up to
\* WaitBound ticks; RunSequence is called with up to SequenceBound actions.
RetriesBound == 2
IncrementBound == 2
WaitBound == 3
SequenceBound == 2
\* Upsets in one behaviour: I/O failures and kills the environment inflicts
\* (the repeated failures of one transition under retry count once) and
\* delete commands the operator gives a skip flag.
MaxUpsets == 1

\* The bytes SendSnapshot reports to have streamed (n): some positive count.
StreamedBytes == 1

\* time.Now() of the calls of Backups.Expired that are checked on their own.
ExpiredNow == 2

IDs == 1..MaxId
Datasets == {"d1", "d2"}
\* depends_on = nil / ParentBackup = nil
NoID == 0

\* ------------------------------------------------------- repository model
BackupTypeFull == "full"
BackupTypeDiff == "diff"
BackupTypeIncr == "incr"
BackupTypes == {BackupTypeFull, BackupTypeDiff, BackupTypeIncr}

OrphanReasonUncommitted == "uncommitted"
OrphanReasonStartedDeletion == "started_deletion"

\* The empty map (Backups{} / Orphans{}).
EmptyMap == [i \in {} |-> 0]

\* delete(m, k)
MapRemove(m, k) == [i \in (DOMAIN m) \ {k} |-> m[i]]

\* m[k] = v
MapPut(m, k, v) == [i \in (DOMAIN m) \cup {k} |-> IF i = k THEN v ELSE m[i]]

\* Backups.Validate that checks the backup alone and not its parent chain.
BackupsValidateShallow(bs, id, now) ==
  IF id \notin DOMAIN bs THEN "ErrParentBackupNotFound"
  ELSE LET b == bs[id] IN
    IF b.id # id THEN "ErrBackupIDMismatch"
    ELSE IF b.created_at > now THEN "ErrBackupCreatedInFuture"
    ELSE IF b.kind = BackupTypeFull THEN
      (IF b.depends_on # NoID THEN "ErrFullBackupHasParent" ELSE "ok")
    ELSE IF b.kind = BackupTypeDiff THEN
      (IF b.depends_on = NoID THEN "ErrDiffBackupNoParent"
       ELSE IF b.depends_on \notin DOMAIN bs THEN "ErrParentBackupNotFound"
       ELSE IF bs[b.depends_on].kind # BackupTypeFull THEN "ErrDiffBackupParentNotFull"
       ELSE "ok")
    ELSE IF b.kind = BackupTypeIncr THEN
      (IF b.depends_on = NoID THEN "ErrIncrBackupNoParent"
       ELSE IF b.depends_on \notin DOMAIN bs THEN "ErrParentBackupNotFound"
       ELSE IF bs[b.depends_on].kind # BackupTypeDiff THEN "ErrIncrBackupParentNotDiff"
       ELSE "ok")
    ELSE "ErrUnknownBackupType"

\* Backups.Validate(id): "ok" or the validation error, the chain included.
RECURSIVE BackupsValidate(_, _, _)
BackupsValidate(bs, id, now) ==
  IF id \notin DOMAIN bs THEN "ErrParentBackupNotFound"
  ELSE LET b == bs[id] IN
    IF b.id # id THEN "ErrBackupIDMismatch"
    ELSE IF b.created_at > now THEN "ErrBackupCreatedInFuture"
    ELSE IF b.kind = BackupTypeFull THEN
      (IF b.depends_on # NoID THEN "ErrFullBackupHasParent" ELSE "ok")
    ELSE IF b.kind = BackupTypeDiff THEN
      (IF b.depends_on = NoID THEN "ErrDiffBackupNoParent"
       ELSE IF b.depends_on \notin DOMAIN bs THEN "ErrParentBackupNotFound"
       ELSE IF bs[b.depends_on].kind # BackupTypeFull THEN "ErrDiffBackupParentNotFull"
       ELSE BackupsValidate(bs, b.depends_on, now))
    ELSE IF b.kind = BackupTypeIncr THEN
      (IF b.depends_on = NoID THEN "ErrIncrBackupNoParent"
       ELSE IF b.depends_on \notin DOMAIN bs THEN "ErrParentBackupNotFound"
       ELSE IF bs[b.depends_on].kind # BackupTypeDiff THEN "ErrIncrBackupParentNotDiff"
       ELSE BackupsValidate(bs, b.depends_on, now))
    ELSE "ErrUnknownBackupType"

\* Store.Validate(): "ok" or the first violated invariant.
StoreValidate(s, now) ==
  IF s.version # 1 THEN "ErrInvalidStoreVersion"
  ELSE IF s.created_at > now THEN "ErrStoreCreatedInFuture"
  ELSE IF (DOMAIN s.orphans) \cap (DOMAIN s.backups) # {} THEN "ErrBackupInOrphan"
  ELSE IF \E id \in DOMAIN s.backups : BackupsValidate(s.backups, id, now) # "ok"
       THEN "ErrBackupValidation"
  ELSE "ok"

\* LatestOfKind with the comparison of CreatedAt turned round: the oldest.
OldestOfKind(bs, dataset, kind) ==
  LET cand == {i \in DOMAIN bs : bs[i].kind = kind /\ bs[i].dataset = dataset}
  IN {i \in cand : \A j \in cand : bs[j].created_at >= bs[i].created_at}

\* LatestOfKind that does not look at the dataset.
LatestOfKindAnyDataset(bs, dataset, kind) ==
  LET cand == {i \in DOMAIN bs : bs[i].kind = kind}
  IN {i \in cand : \A j \in cand : bs[j].created_at <= bs[i].created_at}

\* LatestFull / LatestDiff / LatestIncr: the backups of that kind and dataset
\* that no other one is created after (the map iteration picks one of them).
LatestOfKind(bs, dataset, kind) ==
  LET cand == {i \in DOMAIN bs : bs[i].kind = kind /\ bs[i].dataset = dataset}
  IN {i \in cand : \A j \in cand : bs[j].created_at <= bs[i].created_at}

\* GetParent that answers a missing parent with nil and no error.
GetParentNilOnMissing(bs, dataset, kind) ==
  LET ps == IF kind = BackupTypeFull THEN {NoID}
            ELSE IF kind = BackupTypeDiff THEN LatestOfKind(bs, dataset, BackupTypeFull)
            ELSE LatestOfKind(bs, dataset, BackupTypeDiff)
  IN IF ps = {} THEN {NoID} ELSE ps

\* Backups.GetParent(dataset, typ): the set of results it can return;
\* {NoID} for a full backup, {} when it fails with ErrParentBackupNotFound.
GetParent(bs, dataset, kind) ==
  IF kind = BackupTypeFull THEN {NoID}
  ELSE IF kind = BackupTypeDiff THEN LatestOfKind(bs, dataset, BackupTypeFull)
  ELSE LatestOfKind(bs, dataset, BackupTypeDiff)

\* GetChildren that never finds a child.
GetChildrenNone(bs, id) == {}

\* Backups.GetChildren(id): direct children; none for an unknown id or an incr.
GetChildren(bs, id) ==
  IF id \notin DOMAIN bs THEN {}
  ELSE IF bs[id].kind = BackupTypeIncr THEN {}
  ELSE {i \in DOMAIN bs : bs[i].depends_on = id}

\* AddBackup that overwrites the entry of an existing key.
AddBackupOverwrite(s, b) ==
  [ok |-> TRUE, store |-> [s EXCEPT !.backups = MapPut(s.backups, b.id, b)]]

\* Store.AddBackup: no-op on an equal payload, error on a different one.
AddBackup(s, b) ==
  IF b.id \in DOMAIN s.backups
  THEN [ok |-> s.backups[b.id] = b, store |-> s]
  ELSE [ok |-> TRUE, store |-> [s EXCEPT !.backups = MapPut(s.backups, b.id, b)]]

\* Backups.RemoveBackup: error when the id is not a backup.
RemoveBackup(s, id) ==
  IF id \notin DOMAIN s.backups
  THEN [ok |-> FALSE, store |-> s]
  ELSE [ok |-> TRUE, store |-> [s EXCEPT !.backups = MapRemove(s.backups, id)]]

\* AddOrphan that records every orphan as one whose deletion has started.
AddOrphanStartedDeletion(s, b, reason) ==
  LET orphan == [backup |-> b, reason |-> OrphanReasonStartedDeletion] IN
  IF b.id \in DOMAIN s.orphans
  THEN [ok |-> s.orphans[b.id] = orphan, store |-> s]
  ELSE [ok |-> TRUE, store |-> [s EXCEPT !.orphans = MapPut(s.orphans, b.id, orphan)]]

\* Store.AddOrphan: no-op on an equal orphan, error on a different one.
AddOrphan(s, b, reason) ==
  LET orphan == [backup |-> b, reason |-> reason] IN
  IF b.id \in DOMAIN s.orphans
  THEN [ok |-> s.orphans[b.id] = orphan, store |-> s]
  ELSE [ok |-> TRUE, store |-> [s EXCEPT !.orphans = MapPut(s.orphans, b.id, orphan)]]

\* RemoveOrphan that empties the orphans map.
RemoveOrphanAll(s, b) ==
  IF b.id \notin DOMAIN s.orphans
  THEN [ok |-> FALSE, store |-> s]
  ELSE [ok |-> TRUE, store |-> [s EXCEPT !.orphans = EmptyMap]]

\* Store.RemoveOrphan: error when the id is not an orphan.
RemoveOrphan(s, b) ==
  IF b.id \notin DOMAIN s.orphans
  THEN [ok |-> FALSE, store |-> s]
  ELSE [ok |-> TRUE, store |-> [s EXCEPT !.orphans = MapRemove(s.orphans, b.id)]]

\* diffManagedDatasets(old, new) # nil
DiffManagedDatasets(old, new) ==
  LET o == {old[i] : i \in DOMAIN old}
      n == {new[i] : i \in DOMAIN new}
  IN (o \ n) # {} \/ (n \ o) # {}

\* config.Expiry durations: expired at once, or kept longer than any age here.
TTLs == {0, MaxId + 1}

\* config.Expiry
Expiries == [full : TTLs, diff : TTLs, incr : TTLs]

\* Expired without the parent's verdict: only the backup's own age counts.
RECURSIVE ExpiredOwnAgeOnly(_, _, _, _)
ExpiredOwnAgeOnly(bs, id, expiry, now) ==
  LET v == BackupsValidate(bs, id, now) IN
  IF v # "ok" THEN [err |-> v, value |-> FALSE]
  ELSE [err |-> "none", value |-> bs[id].created_at < now - expiry[bs[id].kind]]

\* Expired with && in place of ||: own age and parent are both needed.
RECURSIVE ExpiredBoth(_, _, _, _)
ExpiredBoth(bs, id, expiry, now) ==
  LET v == BackupsValidate(bs, id, now) IN
  IF v # "ok" THEN [err |-> v, value |-> FALSE]
  ELSE LET b == bs[id] IN
    IF b.kind = BackupTypeFull
    THEN [err |-> "none", value |-> b.created_at < now - expiry.full]
    ELSE LET p == ExpiredBoth(bs, b.depends_on, expiry, now) IN
      IF p.err # "none" THEN [err |-> p.err, value |-> FALSE]
      ELSE [err |-> "none",
            value |-> b.created_at < now - expiry[b.kind] /\ p.value]

\* Backups.Expired(id, expiry) at time now: the error of Validate, or whether
\* CreatedAt is before now - expiry[kind] or the parent is expired.
RECURSIVE Expired(_, _, _, _)
Expired(bs, id, expiry, now) ==
  LET v == BackupsValidate(bs, id, now) IN
  IF v # "ok" THEN [err |-> v, value |-> FALSE]
  ELSE LET b == bs[id] IN
    IF b.kind = BackupTypeFull
    THEN [err |-> "none", value |-> b.created_at < now - expiry.full]
    ELSE LET p == Expired(bs, b.depends_on, expiry, now) IN
      IF p.err # "none" THEN [err |-> p.err, value |-> FALSE]
      ELSE [err |-> "none",
            value |-> b.created_at < now - expiry[b.kind] \/ p.value]

\* ExpiredBackupsForDataset that leaves out what is expired through a parent.
ExpiredBackupsOwnAge(bs, dataset, expiry, now) ==
  LET mine == {i \in DOMAIN bs : bs[i].dataset = dataset} IN
  IF \E i \in mine : ExpiredOwnAgeOnly(bs, i, expiry, now).err # "none"
  THEN [err |-> "ErrBackupValidation", ids |-> {}]
  ELSE [err |-> "none", ids |-> {i \in mine : ExpiredOwnAgeOnly(bs, i, expiry, now).value}]

\* Backups.ExpiredBackupsForDataset(dataset, expiry): the expired backups of
\* the dataset, or the first error of Expired.
ExpiredBackupsForDataset(bs, dataset, expiry, now) ==
  LET mine == {i \in DOMAIN bs : bs[i].dataset = dataset} IN
  IF \E i \in mine : Expired(bs, i, expiry, now).err # "none"
  THEN [err |-> "ErrBackupValidation", ids |-> {}]
  ELSE [err |-> "none", ids |-> {i \in mine : Expired(bs, i, expiry, now).value}]

\* The IDs of S from the lowest to the highest.
RECURSIVE SortedAsc(_)
SortedAsc(S) ==
  IF S = {} THEN <<>>
  ELSE LET m == CHOOSE x \in S : \A y \in S : y >= x
       IN <<m>> \o SortedAsc(S \ {m})

\* sort.Slice(sorted, ID.Compare > 0): the IDs of S from the highest down.
RECURSIVE SortedDesc(_)
SortedDesc(S) ==
  IF S = {} THEN <<>>
  ELSE LET m == CHOOSE x \in S : \A y \in S : y <= x
       IN <<m>> \o SortedDesc(S \ {m})

\* ------------------------------------------------------ retry / FSM runtime
\* createBackupFSM's and createDeleteFSM's RetryExponentialBackoffConfig.
BackupMaxRetries == 3
DeleteMaxRetries == 5
\* createRestoreFSM's
RestoreMaxRetries == 5

\* RetryAfter with > in place of >=: one retry more than MaxRetries.
RetryAfterOneMore(currentRetry, maxRetries, unrecoverable, err) ==
  IF unrecoverable
  THEN [again |-> FALSE, err |-> err, retry |-> currentRetry]
  ELSE IF currentRetry > maxRetries
  THEN [again |-> FALSE, err |-> "RetryAttemptsExhausted", retry |-> currentRetry]
  ELSE [again |-> TRUE, err |-> "none", retry |-> currentRetry + 1]

\* RetryAfter without the IsUnrecoverableError short cut.
RetryAfterNoShortCut(currentRetry, maxRetries, unrecoverable, err) ==
  IF currentRetry >= maxRetries
  THEN [again |-> FALSE, err |-> "RetryAttemptsExhausted", retry |-> currentRetry]
  ELSE [again |-> TRUE, err |-> "none", retry |-> currentRetry + 1]

\* RetryExponentialBackoff.RetryAfter on a runner that granted currentRetry
\* retries so far (the wait itself is not part of this model's state).
RetryAfter(currentRetry, maxRetries, unrecoverable, err) ==
  IF unrecoverable
  THEN [again |-> FALSE, err |-> err, retry |-> currentRetry]
  ELSE IF currentRetry >= maxRetries
  THEN [again |-> FALSE, err |-> "RetryAttemptsExhausted", retry |-> currentRetry]
  ELSE [again |-> TRUE, err |-> "none", retry |-> currentRetry + 1]

\* RetryAfter's wait when it grants a retry:
\* min(WaitIncrements * (1 << currentRetry), MaxWait).
RetryWait(currentRetry, inc, maxWait) ==
  IF inc * (2 ^ currentRetry) < maxWait THEN inc * (2 ^ currentRetry) ELSE maxWait

\* ------------------------------------------------------------------- state
VARIABLES
  store,     \* Runner.Store: the in-memory manifest of the running process
  manifest,  \* the object zfsbackrest_store_v1.json in the object store
  remote,    \* the objects snaps/<dataset>/<id>: absent, partial or complete
  snaps,     \* the local snapshots <dataset>@zfsbackrest-<id>
  pc,        \* where the process is: idle, ready, backup1, upload, backup2,
             \* delete, done (the command returned; its state is still shown)
  run,       \* the command being run and its arguments
  fsms,      \* BackupConcurrent's fsms, one per dataset
  bi,        \* index of the FSM the sequential loops are at
  dfsm,      \* Delete's FSM, or Restore's
  dq,        \* IDs the delete driver has still to call Delete on, or the
             \* backups of the RestoreRecursive calls waiting for their parent
  result,    \* what the last command returned
  pre,       \* the manifest as loaded when the command started
  intr,      \* the backup run that was interrupted last, if any
  nextId,    \* the next ID ulid.Make() returns
  clock,     \* time.Now()
  budget     \* left: upsets that may still happen; flags: the skip flags
             \* the operator has given to delete commands so far

vars == <<store, manifest, remote, snaps, pc, run, fsms, bi, dfsm, dq,
          result, pre, intr, nextId, clock, budget>>

\* nil *Backup
NilBackup == [id |-> NoID, kind |-> "none", created_at |-> 0,
              depends_on |-> NoID, dataset |-> "none", size |-> 0]

NoRun == [op |-> "none"]
NoDfsm == [state |-> "none"]
NoResult == [ok |-> TRUE, err |-> "none", op |-> "none"]
NoIntr == [op |-> "none"]

\* The dataset lists ListDatasetsWithGlobs returns here: deduplicated.
DatasetLists == {<<"d1">>, <<"d1", "d2">>}

\* NewRunnerWithNewRepository: the store that `init` saves.
NewStore(managed) ==
  [version |-> 1, created_at |-> 0, backups |-> EmptyMap, orphans |-> EmptyMap,
   managed |-> managed]

Init ==
  /\ \E m \in DatasetLists : store = NewStore(m) /\ manifest = NewStore(m)
  /\ remote = [k \in Datasets \X IDs |-> "absent"]
  /\ snaps = {}
  /\ pc = "idle"
  /\ run = NoRun
  /\ fsms = <<>>
  /\ bi = 0
  /\ dfsm = NoDfsm
  /\ dq = <<>>
  /\ result = NoResult
  /\ pre = manifest
  /\ intr = NoIntr
  /\ nextId = 1
  /\ clock = 1
  /\ budget = [left |-> MaxUpsets, flags |-> {}]

\* An I/O call of a transition attempt succeeds (ok) or fails; the first
\* failure of a transition (retry = 0) uses up one upset of the budget.
Fault(ok, retry) ==
  IF ok \/ retry > 0 THEN UNCHANGED budget
  ELSE budget.left > 0 /\ budget' = [budget EXCEPT !.left = @ - 1]

\* Save without its call of Validate.
SaveOutcomeUnvalidated(s, putOk) == IF putOk THEN "ok" ELSE "io"

\* Store.Save: validate, then one PUT of the whole store (putOk: the PUT's
\* outcome).  "ok", "invalid" (nothing written) or "io" (nothing written).
SaveOutcome(s, putOk) ==
  IF StoreValidate(s, clock) # "ok" THEN "invalid"
  ELSE IF putOk THEN "ok" ELSE "io"

\* The manifest object after Store.Save(s) with that outcome.
Saved(s, outcome) == IF outcome = "ok" THEN s ELSE manifest

\* ----------------------------------------------------------- process start
\* The command returns err (its process exits); the state it leaves is kept
\* for inspection until the next process starts.
Return(ok, err) ==
  /\ pc' = "done"
  /\ result' = [ok |-> ok, err |-> err, op |-> run.op]
  /\ intr' = IF run.op = "backup" /\ ~ok /\ ~run.rerun
             THEN [op |-> "backup", kind |-> run.kind, datasets |-> run.datasets,
                   pre |-> pre]
             ELSE NoIntr

\* NewRunnerFromExistingRepository: LoadStore, then the managed-datasets
\* reconciliation against the configured datasets cfg.  accept: the operator
\* accepts the plan; proceed: the operator, having rejected it, continues
\* with the current manifest; putOk: the outcome of the PUT of Save.
NewRunnerFromExistingRepository(cfg, accept, proceed, putOk) ==
  /\ pc \in {"idle", "done"}
  /\ StoreValidate(manifest, clock) = "ok"
  /\ run' = NoRun
  /\ fsms' = <<>> /\ bi' = 0 /\ dfsm' = NoDfsm /\ dq' = <<>>
  /\ UNCHANGED <<remote, snaps, nextId, clock, intr>>
  /\ Fault(putOk \/ ~accept \/ ~DiffManagedDatasets(manifest.managed, cfg), 0)
  /\ IF ~DiffManagedDatasets(manifest.managed, cfg)
     THEN /\ store' = manifest
          /\ pc' = "ready"
          /\ result' = NoResult
          /\ UNCHANGED manifest
     ELSE IF accept
     THEN LET s == [manifest EXCEPT !.managed = cfg]
              out == SaveOutcome(s, putOk)
          IN /\ store' = s
             /\ manifest' = Saved(s, out)
             /\ IF out = "ok"
                THEN pc' = "ready" /\ result' = NoResult
                ELSE /\ pc' = "done"
                     /\ result' = [ok |-> FALSE, err |-> "SaveFailed", op |-> "new_runner"]
     ELSE /\ store' = manifest
          /\ result' = NoResult
          /\ UNCHANGED manifest
          /\ pc' = IF proceed THEN "ready" ELSE "idle"
  /\ pre' = manifest'

\* The process is killed (second signal, power loss): everything in memory
\* is lost; an upload in progress leaves whatever part of the object it wrote.
Crash ==
  /\ Fault(FALSE, 0)
  /\ pc \in {"backup1", "pool", "upload", "backup2", "delete", "driver"}
  /\ pc' = "idle"
  /\ store' = manifest
  /\ intr' = IF run.op = "backup" /\ ~run.rerun
             THEN [op |-> "backup", kind |-> run.kind, datasets |-> run.datasets,
                   pre |-> pre]
             ELSE NoIntr
  /\ run' = NoRun
  /\ fsms' = <<>> /\ bi' = 0 /\ dfsm' = NoDfsm /\ dq' = <<>>
  /\ result' = NoResult
  /\ pre' = manifest
  /\ UNCHANGED <<manifest, remote, snaps, nextId, clock>>

\* ------------------------------------------------------ backup orchestrator
\* The data of a fresh FSM of createBackupFSM.
NewBackupFSM(dataset, id, kind) ==
  [dataset |-> dataset, id |-> id, kind |-> kind, state |-> "initial",
   parent |-> NoID, manifest |-> NilBackup, size |-> 0, retry |-> 0, up |-> "queued"]

\* BackupAllManaged -> BackupConcurrent(typ, store.ManagedDatasets...): the
\* first loop makes one FSM (and one ID) per dataset; exists: DatasetExists
\* succeeded and answered true for all of them.
BackupConcurrent(kind, exists) ==
  /\ pc = "ready"
  /\ Fault(exists, 0)
  /\ LET ds == store.managed
         n == Len(ds)
         rerun == /\ intr.op = "backup" /\ intr.kind = kind /\ intr.datasets = ds
     IN /\ nextId + n - 1 <= MaxId
        /\ run' = [op |-> "backup", kind |-> kind, datasets |-> ds, conc |-> 0,
                   rerun |-> rerun, base |-> IF rerun THEN intr.pre ELSE pre]
        /\ IF exists
           THEN /\ fsms' = [i \in 1..n |-> NewBackupFSM(ds[i], nextId + i - 1, kind)]
                /\ nextId' = nextId + n
                /\ bi' = 1
                /\ pc' = IF n = 0 THEN "pool" ELSE "backup1"
                /\ intr' = NoIntr
                /\ UNCHANGED result
           ELSE /\ pc' = "done"
                /\ result' = [ok |-> FALSE, err |-> "CreateFSMFailed", op |-> "backup"]
                /\ intr' = NoIntr
                /\ UNCHANGED <<fsms, nextId, bi>>
  /\ UNCHANGED <<store, manifest, remote, snaps, dfsm, dq, pre, clock>>

\* FSM.Run of fsms[bi] ends an attempt with data f: success advances to `to`.
Advance(f, to) == [f EXCEPT !.state = to, !.retry = 0]

\* FSM.Run of fsms[bi] in a sequential loop: the attempt failed with err and
\* left the data f.  RetryAfter decides between another attempt and returning.
SeqFail(f, unrecoverable, err) ==
  LET ra == RetryAfter(f.retry, BackupMaxRetries, unrecoverable, err) IN
  IF ra.again
  THEN /\ fsms' = [fsms EXCEPT ![bi] = [f EXCEPT !.retry = ra.retry]]
       /\ UNCHANGED <<pc, result, intr, run>>
  ELSE /\ fsms' = [fsms EXCEPT ![bi] = f]
       /\ Return(FALSE, ra.err)
       /\ UNCHANGED run

\* transition get_parent (ioOk: SnapshotExists ran without error)
GetParentStep(ioOk) ==
  /\ pc = "backup1"
  /\ fsms[bi].state = "initial"
  /\ Fault(ioOk, fsms[bi].retry)
  /\ LET f == fsms[bi]
         ps == GetParent(store.backups, f.dataset, f.kind)
     IN IF ps = {}
        THEN ioOk /\ SeqFail(f, TRUE, "ErrParentBackupNotFound")
        ELSE \E p \in ps :
          LET g == [f EXCEPT !.parent = p] IN
          IF p = NoID
          THEN /\ ioOk
               /\ fsms' = [fsms EXCEPT ![bi] = Advance(g, "got_parent")]
               /\ UNCHANGED <<pc, result, intr, run>>
          ELSE IF ~ioOk THEN SeqFail(g, FALSE, "io")
          ELSE IF <<f.dataset, p>> \notin snaps
          THEN SeqFail(g, TRUE, "ParentSnapshotMissing")
          ELSE /\ fsms' = [fsms EXCEPT ![bi] = Advance(g, "got_parent")]
               /\ UNCHANGED <<pc, result, intr, run>>
  /\ UNCHANGED <<store, manifest, remote, snaps, bi, dfsm, dq, pre, nextId, clock>>

\* transition create_snapshot (ioOk: the zfs commands ran without error)
CreateSnapshotStep(ioOk) ==
  /\ pc = "backup1"
  /\ fsms[bi].state = "got_parent"
  /\ Fault(ioOk, fsms[bi].retry)
  /\ LET f == fsms[bi] IN
     IF ~ioOk
     THEN SeqFail(f, FALSE, "io") /\ UNCHANGED snaps
     ELSE /\ snaps' = snaps \cup {<<f.dataset, f.id>>}
          /\ fsms' = [fsms EXCEPT ![bi] = Advance(f, "created_snapshot")]
          /\ UNCHANGED <<pc, result, intr, run>>
  /\ UNCHANGED <<store, manifest, remote, bi, dfsm, dq, pre, nextId, clock>>

\* transition create_backup_manifest
CreateBackupManifestStep ==
  /\ UNCHANGED budget
  /\ pc = "backup1"
  /\ fsms[bi].state = "created_snapshot"
  /\ LET f == fsms[bi]
         m == [id |-> f.id, kind |-> f.kind, created_at |-> clock,
               depends_on |-> f.parent, dataset |-> f.dataset, size |-> 0]
     IN IF \/ f.kind = BackupTypeFull /\ f.parent # NoID
           \/ f.kind = BackupTypeDiff /\ f.parent = NoID
           \/ f.kind = BackupTypeIncr /\ f.parent = NoID
        THEN SeqFail(f, TRUE, "SanityCheckFailed") /\ UNCHANGED clock
        ELSE /\ fsms' = [fsms EXCEPT ![bi] =
                           Advance([f EXCEPT !.manifest = m], "created_backup_manifest")]
             /\ clock' = clock + 1
             /\ UNCHANGED <<pc, result, intr, run>>
  /\ UNCHANGED <<store, manifest, remote, snaps, bi, dfsm, dq, pre, nextId>>

\* add_orphan without its Save: the orphan stays in memory.
AddOrphanStepUnsaved(putOk) ==
  /\ pc = "backup1"
  /\ fsms[bi].state = "created_backup_manifest"
  /\ putOk /\ UNCHANGED budget
  /\ LET f == fsms[bi]
         a == AddOrphan(store, f.manifest, OrphanReasonUncommitted)
     IN IF ~a.ok
        THEN SeqFail(f, TRUE, "AddOrphanFailed") /\ UNCHANGED <<store, manifest, bi>>
        ELSE /\ store' = a.store
             /\ UNCHANGED manifest
             /\ fsms' = [fsms EXCEPT ![bi] = Advance(f, "added_orphan")]
             /\ IF bi < Len(fsms)
                THEN bi' = bi + 1 /\ pc' = "backup1"
                ELSE bi' = 1 /\ pc' = "pool"
             /\ UNCHANGED <<result, intr, run>>
  /\ UNCHANGED <<remote, snaps, dfsm, dq, pre, nextId, clock>>

\* transition add_orphan, and the step of the first sequential loop to the
\* next FSM (or to the upload pool after the last one).
AddOrphanStep(putOk) ==
  /\ pc = "backup1"
  /\ fsms[bi].state = "created_backup_manifest"
  /\ Fault(putOk, fsms[bi].retry)
  /\ LET f == fsms[bi]
         a == AddOrphan(store, f.manifest, OrphanReasonUncommitted)
         out == SaveOutcome(a.store, putOk)
     IN IF ~a.ok
        THEN SeqFail(f, TRUE, "AddOrphanFailed") /\ UNCHANGED <<store, manifest, bi>>
        ELSE /\ store' = a.store
             /\ manifest' = Saved(a.store, out)
             /\ IF out = "ok"
                THEN /\ fsms' = [fsms EXCEPT ![bi] = Advance(f, "added_orphan")]
                     /\ IF bi < Len(fsms)
                        THEN bi' = bi + 1 /\ pc' = "backup1"
                        ELSE bi' = 1 /\ pc' = "pool"
                     /\ UNCHANGED <<result, intr, run>>
                ELSE SeqFail(f, FALSE, "SaveFailed") /\ UNCHANGED bi
  /\ UNCHANGED <<remote, snaps, dfsm, dq, pre, nextId, clock>>

\* Largest maxConcurrency (upload_concurrency.<kind>) a run is started with.
MaxGoroutines == 2

\* pool.New().WithMaxGoroutines(maxConcurrency): conc is the configured
\* upload_concurrency of the run's kind.
NewPool(conc) ==
  /\ pc = "pool"
  /\ run' = [run EXCEPT !.conc = conc]
  /\ pc' = "upload"
  /\ UNCHANGED <<store, manifest, remote, snaps, fsms, bi, dfsm, dq, result, pre,
                 intr, nextId, clock, budget>>

\* Number of upload_snapshot transitions running in the pool.
Uploading == Cardinality({i \in DOMAIN fsms : fsms[i].up = "sending"})

\* Uploads submitted from inside the first sequential loop, as soon as an
\* FSM has added its orphan.
UploadBeginEarly ==
  /\ UNCHANGED budget
  /\ pc \in {"backup1", "upload"}
  /\ \E i \in DOMAIN fsms :
       /\ pc = "upload" => i = bi /\ Uploading < run.conc
       /\ fsms[i].state = "added_orphan" /\ fsms[i].up = "queued"
       /\ fsms' = [fsms EXCEPT ![i].up = "sending"]
       /\ remote' = [remote EXCEPT ![<<fsms[i].dataset, fsms[i].manifest.id>>] = "partial"]
  /\ bi' = IF pc = "upload" THEN bi + 1 ELSE bi
  /\ UNCHANGED <<store, manifest, snaps, pc, run, dfsm, dq, result, pre, intr,
                 nextId, clock>>

\* pool.Go on a pool without WithMaxGoroutines: every upload starts at once.
UploadBeginUnbounded ==
  /\ UNCHANGED budget
  /\ pc = "upload"
  /\ bi <= Len(fsms)
  /\ fsms[bi].state = "added_orphan"
  /\ fsms' = [fsms EXCEPT ![bi].up = "sending"]
  /\ remote' = [remote EXCEPT ![<<fsms[bi].dataset, fsms[bi].manifest.id>>] = "partial"]
  /\ bi' = bi + 1
  /\ UNCHANGED <<store, manifest, snaps, pc, run, dfsm, dq, result, pre, intr,
                 nextId, clock>>

\* pool.Go of the next FSM, which blocks until the pool has a free goroutine,
\* and the start of its upload_snapshot transition: OpenSnapshotWriteStream
\* starts the PUT of snaps/<dataset>/<id>.
UploadBegin ==
  /\ UNCHANGED budget
  /\ pc = "upload"
  /\ bi <= Len(fsms)
  /\ Uploading < run.conc
  /\ fsms[bi].state = "added_orphan"
  /\ fsms' = [fsms EXCEPT ![bi].up = "sending"]
  /\ remote' = [remote EXCEPT ![<<fsms[bi].dataset, fsms[bi].manifest.id>>] = "partial"]
  /\ bi' = bi + 1
  /\ UNCHANGED <<store, manifest, snaps, pc, run, dfsm, dq, result, pre, intr,
                 nextId, clock>>

\* The end of an attempt of upload_snapshot of fsms[i]: SendSnapshot streamed
\* the snapshot and the writer's Close saw the PUT acknowledged (ioOk), or
\* something failed and RetryAfter grants another attempt or gives up.
UploadFinish(i, ioOk) ==
  /\ pc = "upload"
  /\ i \in DOMAIN fsms
  /\ fsms[i].up = "sending"
  /\ Fault(ioOk, fsms[i].retry)
  /\ LET f == fsms[i]
         ra == RetryAfter(f.retry, BackupMaxRetries, FALSE, "io")
     IN IF ioOk
        THEN /\ remote' = [remote EXCEPT ![<<f.dataset, f.manifest.id>>] = "complete"]
             /\ fsms' = [fsms EXCEPT ![i] =
                  [Advance(f, "uploaded_snapshot") EXCEPT !.size = StreamedBytes, !.up = "done"]]
        ELSE /\ UNCHANGED remote
             /\ fsms' = [fsms EXCEPT ![i] =
                  IF ra.again THEN [f EXCEPT !.retry = ra.retry]
                  ELSE [f EXCEPT !.up = "failed"]]
  /\ UNCHANGED <<store, manifest, snaps, pc, run, bi, dfsm, dq, result, pre, intr,
                 nextId, clock>>

\* A Wait that returns as soon as one upload has succeeded.
PoolWaitAny ==
  /\ UNCHANGED budget
  /\ pc = "upload"
  /\ bi > Len(fsms)
  /\ \E i \in DOMAIN fsms : fsms[i].up = "done"
  /\ pc' = "backup2" /\ bi' = 1 /\ UNCHANGED <<result, intr>>
  /\ UNCHANGED <<store, manifest, remote, snaps, run, fsms, dfsm, dq, pre,
                 nextId, clock>>

\* A Wait that returns the first error without waiting for the uploads that
\* are still queued or running.
PoolWaitFirstError ==
  /\ UNCHANGED budget
  /\ pc = "upload"
  /\ \/ \E i \in DOMAIN fsms : fsms[i].up = "failed"
     \/ bi > Len(fsms) /\ \A i \in DOMAIN fsms : fsms[i].up = "done"
  /\ IF \E i \in DOMAIN fsms : fsms[i].up = "failed"
     THEN Return(FALSE, "UploadFailed") /\ UNCHANGED bi
     ELSE IF Len(fsms) = 0
     THEN Return(TRUE, "none") /\ UNCHANGED bi
     ELSE pc' = "backup2" /\ bi' = 1 /\ UNCHANGED <<result, intr>>
  /\ UNCHANGED <<store, manifest, remote, snaps, run, fsms, dfsm, dq, pre,
                 nextId, clock>>

\* pool.Wait returned: an error if any upload failed, else the second
\* sequential loop starts.
PoolWait ==
  /\ UNCHANGED budget
  /\ pc = "upload"
  /\ bi > Len(fsms)
  /\ \A i \in DOMAIN fsms : fsms[i].up \in {"done", "failed"}
  /\ IF \E i \in DOMAIN fsms : fsms[i].up = "failed"
     THEN Return(FALSE, "UploadFailed") /\ UNCHANGED bi
     ELSE IF Len(fsms) = 0
     THEN Return(TRUE, "none") /\ UNCHANGED bi
     ELSE pc' = "backup2" /\ bi' = 1 /\ UNCHANGED <<result, intr>>
  /\ UNCHANGED <<store, manifest, remote, snaps, run, fsms, dfsm, dq, pre,
                 nextId, clock>>

\* transition update_store
UpdateStoreStep(putOk) ==
  /\ pc = "backup2"
  /\ fsms[bi].state = "uploaded_snapshot"
  /\ Fault(putOk, fsms[bi].retry)
  /\ LET f == fsms[bi]
         r == RemoveOrphan(store, f.manifest)
         g == [f EXCEPT !.manifest.size = f.size]
         a == AddBackup(r.store, g.manifest)
         out == SaveOutcome(a.store, putOk)
     IN IF ~r.ok
        THEN SeqFail(f, TRUE, "RemoveOrphanFailed") /\ UNCHANGED <<store, manifest>>
        ELSE IF ~a.ok
        THEN SeqFail(g, TRUE, "AddBackupFailed") /\ store' = r.store /\ UNCHANGED manifest
        ELSE /\ store' = a.store
             /\ manifest' = Saved(a.store, out)
             /\ IF out = "ok"
                THEN /\ fsms' = [fsms EXCEPT ![bi] = Advance(g, "updated_store")]
                     /\ UNCHANGED <<pc, result, intr, run>>
                ELSE SeqFail(g, FALSE, "SaveFailed")
  /\ UNCHANGED <<remote, snaps, bi, dfsm, dq, pre, nextId, clock>>

\* transition complete, and the step of the second sequential loop to the
\* next FSM (or the return of BackupConcurrent after the last one).
CompleteStep ==
  /\ UNCHANGED budget
  /\ pc = "backup2"
  /\ fsms[bi].state = "updated_store"
  /\ fsms' = [fsms EXCEPT ![bi] = Advance(fsms[bi], "completed")]
  /\ IF bi < Len(fsms)
     THEN bi' = bi + 1 /\ UNCHANGED <<pc, result, intr>>
     ELSE Return(TRUE, "none") /\ UNCHANGED bi
  /\ UNCHANGED <<store, manifest, remote, snaps, run, dfsm, dq, pre, nextId, clock>>

\* ------------------------------------------------------ delete orchestrator
\* DeleteOpts: every combination of the five flags.
DeleteOptsSet ==
  [skipPrereq : BOOLEAN, skipOrphan : BOOLEAN, skipLocal : BOOLEAN,
   skipRemote : BOOLEAN, dryRun : BOOLEAN]

\* The skip flags set in opts.
SkipFlags(opts) ==
  {f \in {"skipPrereq", "skipOrphan", "skipLocal", "skipRemote"} : opts[f]}

\* DeleteOpts{} and DeleteOpts{DryRun: true}: no skip flag
NoSkipOpts == {o \in DeleteOptsSet : SkipFlags(o) = {}}

\* The orders in which a range over a map with the keys S visits them.
Orders(S) ==
  {q \in [1..Cardinality(S) -> S] : \A i, j \in 1..Cardinality(S) : q[i] = q[j] => i = j}

\* A delete command with a skip flag uses up one upset of the budget.
Skip(opts) ==
  IF opts \in NoSkipOpts THEN UNCHANGED budget
  ELSE /\ budget.left > 0
       /\ budget' = [left |-> budget.left - 1, flags |-> budget.flags \cup SkipFlags(opts)]

\* A command that calls Runner.Delete(dataset of id, id, opts) once.
DeleteCmd(id, opts) ==
  /\ Skip(opts)
  /\ pc = "ready"
  /\ id \in (DOMAIN store.backups) \cup (DOMAIN store.orphans)
  /\ run' = [op |-> "delete", opts |-> opts]
  /\ dq' = <<id>>
  /\ pc' = "driver"
  /\ intr' = NoIntr
  /\ UNCHANGED <<store, manifest, remote, snaps, fsms, bi, dfsm, result, pre,
                 nextId, clock>>

\* Runner.DeleteAllOrphans(opts): forces SkipOrphaning and calls Delete on
\* every orphan, in the order the map iteration yields them.
DeleteAllOrphans(opts, order) ==
  /\ Skip(opts)
  /\ pc = "ready"
  /\ order \in Orders(DOMAIN store.orphans)
  /\ run' = [op |-> "delete_all_orphans", opts |-> [opts EXCEPT !.skipOrphan = TRUE]]
  /\ dq' = order
  /\ pc' = "driver"
  /\ intr' = NoIntr
  /\ UNCHANGED <<store, manifest, remote, snaps, fsms, bi, dfsm, result, pre,
                 nextId, clock>>

\* Runner.DeleteAllExpired(opts, expiry): DeleteExpired for every managed
\* dataset in turn.  issued, dataset, bs0 and left0 record, for the dataset
\* being swept, the Deletes issued so far, the backups it started from and the
\* upsets that were left when the command started.
DeleteAllExpired(opts, expiry) ==
  /\ Skip(opts)
  /\ pc = "ready"
  /\ run' = [op |-> "delete_all_expired", opts |-> opts, expiry |-> expiry,
             todo |-> store.managed, dataset |-> "none", bs0 |-> EmptyMap,
             issued |-> <<>>, left0 |-> budget'.left]
  /\ dq' = <<>>
  /\ pc' = "driver"
  /\ intr' = NoIntr
  /\ UNCHANGED <<store, manifest, remote, snaps, fsms, bi, dfsm, result, pre,
                 nextId, clock>>

\* Runner.DeleteExpired(dataset, opts, expiry) up to its loop: the expired
\* backups of the dataset, sorted by ID from the highest down.
DeleteExpired ==
  /\ UNCHANGED budget
  /\ pc = "driver" /\ run.op = "delete_all_expired"
  /\ dq = <<>> /\ run.todo # <<>>
  /\ LET ds == Head(run.todo)
         e == ExpiredBackupsForDataset(store.backups, ds, run.expiry, clock)
     IN IF e.err # "none"
        THEN Return(FALSE, e.err) /\ UNCHANGED <<run, dq>>
        ELSE /\ dq' = SortedDesc(e.ids)
             /\ run' = [run EXCEPT !.todo = Tail(@), !.dataset = ds,
                                   !.bs0 = store.backups, !.issued = <<>>]
             /\ UNCHANGED <<pc, result, intr>>
  /\ UNCHANGED <<store, manifest, remote, snaps, fsms, bi, dfsm, pre, nextId, clock>>

\* The driver's loop is over: it returns nil.
DriverReturn ==
  /\ UNCHANGED budget
  /\ pc = "driver"
  /\ dq = <<>>
  /\ run.op = "delete_all_expired" => run.todo = <<>>
  /\ Return(TRUE, "none")
  /\ UNCHANGED <<store, manifest, remote, snaps, run, fsms, bi, dfsm, dq, pre,
                 nextId, clock>>

\* Runner.Delete up to its RunSequence: createDeleteFSM(dataset, id).
DeleteBegin ==
  /\ UNCHANGED budget
  /\ pc = "driver"
  /\ dq # <<>>
  /\ LET id == Head(dq) IN
     IF id \in DOMAIN store.backups
     THEN /\ dfsm' = [dataset |-> store.backups[id].dataset, backup |-> store.backups[id],
                      orphan |-> FALSE, state |-> "initial", retry |-> 0]
          /\ pc' = "delete" /\ UNCHANGED <<result, intr>>
     ELSE IF id \in DOMAIN store.orphans
     THEN /\ dfsm' = [dataset |-> store.orphans[id].backup.dataset,
                      backup |-> store.orphans[id].backup,
                      orphan |-> TRUE, state |-> "initial", retry |-> 0]
          /\ pc' = "delete" /\ UNCHANGED <<result, intr>>
     ELSE Return(FALSE, "BackupNotFound") /\ UNCHANGED dfsm
  /\ dq' = Tail(dq)
  /\ run' = IF run.op \in {"delete_all_expired", "delete_recursive"}
            THEN [run EXCEPT !.issued = Append(@, Head(dq))] ELSE run
  /\ UNCHANGED <<store, manifest, remote, snaps, fsms, bi, pre, nextId, clock>>

\* FSM.Run of the delete FSM: a successful attempt advances to `to`.
DAdvance(to) ==
  /\ dfsm' = [dfsm EXCEPT !.state = to, !.retry = 0]
  /\ UNCHANGED <<pc, result, intr>>

\* FSM.Run of the delete FSM: a failed attempt; RetryAfter decides.
DFail(unrecoverable, err) ==
  LET ra == RetryAfter(dfsm.retry, DeleteMaxRetries, unrecoverable, err) IN
  IF ra.again
  THEN dfsm' = [dfsm EXCEPT !.retry = ra.retry] /\ UNCHANGED <<pc, result, intr>>
  ELSE Return(FALSE, ra.err) /\ UNCHANGED dfsm

\* transition verify_prerequisites
VerifyPrerequisites ==
  /\ UNCHANGED budget
  /\ pc = "delete" /\ dfsm.state = "initial" /\ ~run.opts.skipPrereq
  /\ IF dfsm.orphan THEN DAdvance("prerequisites_verified")
     ELSE IF GetChildren(store.backups, dfsm.backup.id) # {}
     THEN DFail(TRUE, "HasDependentBackups")
     ELSE DAdvance("prerequisites_verified")
  /\ UNCHANGED <<store, manifest, remote, snaps, run, fsms, bi, dq, pre, nextId, clock>>

\* transition force_skip_prerequisites
ForceSkipPrerequisites ==
  /\ UNCHANGED budget
  /\ pc = "delete" /\ dfsm.state = "initial" /\ run.opts.skipPrereq
  /\ DAdvance("prerequisites_verified")
  /\ UNCHANGED <<store, manifest, remote, snaps, run, fsms, bi, dq, pre, nextId, clock>>

\* Runner.Delete returned nil to its driver.
DeleteReturned ==
  /\ dfsm' = [dfsm EXCEPT !.state = "completed", !.retry = 0]
  /\ pc' = "driver"
  /\ UNCHANGED <<result, intr>>

\* A dry_run that goes on with the sequence of a real delete.
DryRunContinues ==
  /\ UNCHANGED budget
  /\ pc = "delete" /\ dfsm.state = "prerequisites_verified" /\ run.opts.dryRun
  /\ DAdvance("orphaned")
  /\ UNCHANGED <<store, manifest, remote, snaps, run, fsms, bi, dq, pre, nextId, clock>>

\* transition dry_run
DryRun ==
  /\ UNCHANGED budget
  /\ pc = "delete" /\ dfsm.state = "prerequisites_verified" /\ run.opts.dryRun
  /\ DeleteReturned
  /\ UNCHANGED <<store, manifest, remote, snaps, run, fsms, bi, dq, pre, nextId, clock>>

\* transition do_not_orphan
DoNotOrphan ==
  /\ UNCHANGED budget
  /\ pc = "delete" /\ dfsm.state = "prerequisites_verified"
  /\ ~run.opts.dryRun /\ run.opts.skipOrphan
  /\ DAdvance("orphaned")
  /\ UNCHANGED <<store, manifest, remote, snaps, run, fsms, bi, dq, pre, nextId, clock>>

\* orphan without its Save: the move to the orphans stays in memory.
OrphanUnsaved(putOk) ==
  /\ pc = "delete" /\ dfsm.state = "prerequisites_verified"
  /\ ~run.opts.dryRun /\ ~run.opts.skipOrphan
  /\ putOk /\ UNCHANGED budget
  /\ LET r == RemoveBackup(store, dfsm.backup.id)
         a == AddOrphan(r.store, dfsm.backup, OrphanReasonStartedDeletion)
     IN IF ~r.ok
        THEN DFail(TRUE, "RemoveBackupFailed") /\ UNCHANGED <<store, manifest>>
        ELSE IF ~a.ok
        THEN DFail(TRUE, "AddOrphanFailed") /\ store' = r.store /\ UNCHANGED manifest
        ELSE store' = a.store /\ UNCHANGED manifest /\ DAdvance("orphaned")
  /\ UNCHANGED <<remote, snaps, run, fsms, bi, dq, pre, nextId, clock>>

\* transition orphan
Orphan(putOk) ==
  /\ pc = "delete" /\ dfsm.state = "prerequisites_verified"
  /\ ~run.opts.dryRun /\ ~run.opts.skipOrphan
  /\ Fault(putOk, dfsm.retry)
  /\ LET r == RemoveBackup(store, dfsm.backup.id)
         a == AddOrphan(r.store, dfsm.backup, OrphanReasonStartedDeletion)
         out == SaveOutcome(a.store, putOk)
     IN IF ~r.ok
        THEN DFail(TRUE, "RemoveBackupFailed") /\ UNCHANGED <<store, manifest>>
        ELSE IF ~a.ok
        THEN DFail(TRUE, "AddOrphanFailed") /\ store' = r.store /\ UNCHANGED manifest
        ELSE /\ store' = a.store
             /\ manifest' = Saved(a.store, out)
             /\ IF out = "ok" THEN DAdvance("orphaned") ELSE DFail(FALSE, "SaveFailed")
  /\ UNCHANGED <<remote, snaps, run, fsms, bi, dq, pre, nextId, clock>>

\* transition skip_remove_remote
SkipRemoveRemote ==
  /\ UNCHANGED budget
  /\ pc = "delete" /\ dfsm.state = "orphaned" /\ run.opts.skipRemote
  /\ DAdvance("remote_removed")
  /\ UNCHANGED <<store, manifest, remote, snaps, run, fsms, bi, dq, pre, nextId, clock>>

\* remove_remote that reports success without removing the object.
RemoveRemoteKept(ioOk) ==
  /\ pc = "delete" /\ dfsm.state = "orphaned" /\ ~run.opts.skipRemote
  /\ Fault(ioOk, dfsm.retry)
  /\ UNCHANGED remote
  /\ IF ioOk THEN DAdvance("remote_removed") ELSE DFail(FALSE, "io")
  /\ UNCHANGED <<store, manifest, snaps, run, fsms, bi, dq, pre, nextId, clock>>

\* transition remove_remote (ioOk: RemoveObject succeeded; it also succeeds
\* when there is no such object)
RemoveRemote(ioOk) ==
  /\ pc = "delete" /\ dfsm.state = "orphaned" /\ ~run.opts.skipRemote
  /\ Fault(ioOk, dfsm.retry)
  /\ IF ioOk
     THEN /\ remote' = [remote EXCEPT ![<<dfsm.dataset, dfsm.backup.id>>] = "absent"]
          /\ DAdvance("remote_removed")
     ELSE DFail(FALSE, "io") /\ UNCHANGED remote
  /\ UNCHANGED <<store, manifest, snaps, run, fsms, bi, dq, pre, nextId, clock>>

\* transition update_store of the delete FSM
DeleteUpdateStore(putOk) ==
  /\ pc = "delete" /\ dfsm.state = "remote_removed"
  /\ Fault(putOk, dfsm.retry)
  /\ LET r == RemoveOrphan(store, dfsm.backup)
         out == SaveOutcome(r.store, putOk)
     IN IF ~r.ok
        THEN DFail(FALSE, "OrphanNotFound") /\ UNCHANGED <<store, manifest>>
        ELSE /\ store' = r.store
             /\ manifest' = Saved(r.store, out)
             /\ IF out = "ok" THEN DAdvance("updated_store") ELSE DFail(FALSE, "SaveFailed")
  /\ UNCHANGED <<remote, snaps, run, fsms, bi, dq, pre, nextId, clock>>

\* transition skip_local_removal
SkipLocalRemoval ==
  /\ UNCHANGED budget
  /\ pc = "delete" /\ dfsm.state = "updated_store" /\ run.opts.skipLocal
  /\ DAdvance("local_removed")
  /\ UNCHANGED <<store, manifest, remote, snaps, run, fsms, bi, dq, pre, nextId, clock>>

\* transition release_snapshot: a failure to release is not fatal
ReleaseSnapshot ==
  /\ UNCHANGED budget
  /\ pc = "delete" /\ dfsm.state = "updated_store" /\ ~run.opts.skipLocal
  /\ DAdvance("released_snapshot")
  /\ UNCHANGED <<store, manifest, remote, snaps, run, fsms, bi, dq, pre, nextId, clock>>

\* transition remove_local (ioOk: zfs destroy ran without error; it fails
\* when the snapshot does not exist)
RemoveLocal(ioOk) ==
  /\ pc = "delete" /\ dfsm.state = "released_snapshot"
  /\ Fault(ioOk, dfsm.retry)
  /\ IF ioOk /\ <<dfsm.dataset, dfsm.backup.id>> \in snaps
     THEN /\ snaps' = snaps \ {<<dfsm.dataset, dfsm.backup.id>>}
          /\ DAdvance("local_removed")
     ELSE DFail(FALSE, "io") /\ UNCHANGED snaps
  /\ UNCHANGED <<store, manifest, remote, run, fsms, bi, dq, pre, nextId, clock>>

\* transition complete of the delete FSM
DeleteComplete ==
  /\ UNCHANGED budget
  /\ pc = "delete" /\ dfsm.state = "local_removed"
  /\ DeleteReturned
  /\ UNCHANGED <<store, manifest, remote, snaps, run, fsms, bi, dq, pre, nextId, clock>>

\* ------------------------------------------------------------ specification
Next ==
  \/ \E cfg \in DatasetLists, accept, proceed, putOk \in BOOLEAN :
       NewRunnerFromExistingRepository(cfg, accept, proceed, putOk)
  \/ Crash
  \/ \E kind \in BackupTypes, exists \in BOOLEAN : BackupConcurrent(kind, exists)
  \/ \E ioOk \in BOOLEAN : GetParentStep(ioOk)
  \/ \E ioOk \in BOOLEAN : CreateSnapshotStep(ioOk)
  \/ CreateBackupManifestStep
  \/ \E putOk \in BOOLEAN : AddOrphanStep(putOk)
  \/ \E conc \in 1..MaxGoroutines : NewPool(conc)
  \/ UploadBegin
  \/ \E i \in 1..Cardinality(Datasets), ioOk \in BOOLEAN : UploadFinish(i, ioOk)
  \/ PoolWait
  \/ \E putOk \in BOOLEAN : UpdateStoreStep(putOk)
  \/ CompleteStep
  \/ \E id \in IDs, opts \in DeleteOptsSet : DeleteCmd(id, opts)
  \/ \E opts \in {o \in DeleteOptsSet : ~o.skipOrphan} : \E order \in Orders(DOMAIN store.orphans) :
       DeleteAllOrphans(opts, order)
  \/ DriverReturn
  \/ DeleteBegin
  \/ VerifyPrerequisites
  \/ ForceSkipPrerequisites
  \/ DryRun
  \/ DoNotOrphan
  \/ \E putOk \in BOOLEAN : Orphan(putOk)
  \/ SkipRemoveRemote
  \/ \E ioOk \in BOOLEAN : RemoveRemote(ioOk)
  \/ \E putOk \in BOOLEAN : DeleteUpdateStore(putOk)
  \/ SkipLocalRemoval
  \/ ReleaseSnapshot
  \/ \E ioOk \in BOOLEAN : RemoveLocal(ioOk)
  \/ DeleteComplete

Spec == Init /\ [][Next]_vars

\* ------------------------------------------------------- cleanup --expired
\* cleanup --expired with at most one of its five option flags.
CleanupOptsSet ==
  {o \in DeleteOptsSet :
     Cardinality({f \in {"skipPrereq", "skipOrphan", "skipLocal", "skipRemote", "dryRun"} : o[f]}) <= 1}

\* The backup command and cleanup --expired, with the steps of Spec.
NextCleanup ==
  \/ \E cfg \in DatasetLists, accept, proceed, putOk \in BOOLEAN :
       NewRunnerFromExistingRepository(cfg, accept, proceed, putOk)
  \/ Crash
  \/ \E kind \in BackupTypes, exists \in BOOLEAN : BackupConcurrent(kind, exists)
  \/ \E ioOk \in BOOLEAN : GetParentStep(ioOk)
  \/ \E ioOk \in BOOLEAN : CreateSnapshotStep(ioOk)
  \/ CreateBackupManifestStep
  \/ \E putOk \in BOOLEAN : AddOrphanStep(putOk)
  \/ \E conc \in 1..MaxGoroutines : NewPool(conc)
  \/ UploadBegin
  \/ \E i \in 1..Cardinality(Datasets), ioOk \in BOOLEAN : UploadFinish(i, ioOk)
  \/ PoolWait
  \/ \E putOk \in BOOLEAN : UpdateStoreStep(putOk)
  \/ CompleteStep
  \/ \E opts \in CleanupOptsSet, expiry \in Expiries : DeleteAllExpired(opts, expiry)
  \/ DeleteExpired
  \/ DriverReturn
  \/ DeleteBegin
  \/ VerifyPrerequisites
  \/ ForceSkipPrerequisites
  \/ DryRun
  \/ DoNotOrphan
  \/ \E putOk \in BOOLEAN : Orphan(putOk)
  \/ SkipRemoveRemote
  \/ \E ioOk \in BOOLEAN : RemoveRemote(ioOk)
  \/ \E putOk \in BOOLEAN : DeleteUpdateStore(putOk)
  \/ SkipLocalRemoval
  \/ ReleaseSnapshot
  \/ \E ioOk \in BOOLEAN : RemoveLocal(ioOk)
  \/ DeleteComplete

SpecCleanup == Init /\ [][NextCleanup]_vars

\* ------------------------------------------------------------------ restore
\* The destination dataset of restore (--dst-dataset).
Dst == "restored"

\* restore -b id runs RestoreRecursive(dst, id); direct: Runner.Restore(dst,
\* id) is called on its own.  completed and snaps0 record the restores that
\* have completed in this command and the snapshots it started with.
RestoreCmd(id, direct) ==
  /\ UNCHANGED budget
  /\ pc = "ready"
  /\ run' = [op |-> "restore", direct |-> direct, id |-> id, call |-> id,
             completed |-> <<>>, snaps0 |-> snaps]
  /\ dq' = <<>>
  /\ pc' = "rcall"
  /\ intr' = NoIntr
  /\ UNCHANGED <<store, manifest, remote, snaps, fsms, bi, dfsm, result, pre,
                 nextId, clock>>

\* The data of a fresh FSM of createRestoreFSM.
NewRestoreFSM(id) ==
  [dataset |-> Dst, backup |-> store.backups[id], state |-> "initial", retry |-> 0]

\* RestoreRecursive that restores the backup it is called with straight
\* away, without restoring the parent first.
RestoreRecursiveChildOnly ==
  /\ UNCHANGED budget
  /\ pc = "rcall" /\ ~run.direct
  /\ IF run.call \notin DOMAIN store.backups
     THEN Return(FALSE, "BackupNotFound") /\ UNCHANGED <<run, dq, dfsm>>
     ELSE /\ dfsm' = NewRestoreFSM(run.call)
          /\ pc' = "restore"
          /\ UNCHANGED <<run, dq, result, intr>>
  /\ UNCHANGED <<store, manifest, remote, snaps, fsms, bi, pre, nextId, clock>>

\* RestoreRecursive(dst, run.call) up to its recursive call or, for a backup
\* without parent, up to Restore's RunSequence.
RestoreRecursive ==
  /\ UNCHANGED budget
  /\ pc = "rcall" /\ ~run.direct
  /\ IF run.call \notin DOMAIN store.backups
     THEN Return(FALSE, "BackupNotFound") /\ UNCHANGED <<run, dq, dfsm>>
     ELSE IF store.backups[run.call].depends_on # NoID
     THEN /\ dq' = <<run.call>> \o dq
          /\ run' = [run EXCEPT !.call = store.backups[run.call].depends_on]
          /\ UNCHANGED <<pc, dfsm, result, intr>>
     ELSE /\ dfsm' = NewRestoreFSM(run.call)
          /\ pc' = "restore"
          /\ UNCHANGED <<run, dq, result, intr>>
  /\ UNCHANGED <<store, manifest, remote, snaps, fsms, bi, pre, nextId, clock>>

\* Runner.Restore(dst, run.call) up to its RunSequence, called on its own.
Restore ==
  /\ UNCHANGED budget
  /\ pc = "rcall" /\ run.direct
  /\ IF run.call \notin DOMAIN store.backups
     THEN Return(FALSE, "BackupNotFound") /\ UNCHANGED dfsm
     ELSE /\ dfsm' = NewRestoreFSM(run.call)
          /\ pc' = "restore"
          /\ UNCHANGED <<result, intr>>
  /\ UNCHANGED <<store, manifest, remote, snaps, run, fsms, bi, dq, pre, nextId, clock>>

\* FSM.Run of the restore FSM: a failed attempt; RetryAfter decides.
RFail(unrecoverable, err) ==
  LET ra == RetryAfter(dfsm.retry, RestoreMaxRetries, unrecoverable, err) IN
  IF ra.again
  THEN dfsm' = [dfsm EXCEPT !.retry = ra.retry] /\ UNCHANGED <<pc, result, intr>>
  ELSE Return(FALSE, ra.err) /\ UNCHANGED dfsm

\* transition check_parent_snapshot (ioOk: SnapshotExists ran without error)
CheckParentSnapshot(ioOk) ==
  /\ pc = "restore" /\ dfsm.state = "initial"
  /\ dfsm.backup.depends_on = NoID => ioOk
  /\ Fault(ioOk, dfsm.retry)
  /\ IF dfsm.backup.depends_on = NoID THEN DAdvance("parent_snapshot_exists")
     ELSE IF ~ioOk THEN RFail(FALSE, "io")
     ELSE IF <<dfsm.dataset, dfsm.backup.depends_on>> \notin snaps
     THEN RFail(TRUE, "ParentSnapshotMissing")
     ELSE DAdvance("parent_snapshot_exists")
  /\ UNCHANGED <<store, manifest, remote, snaps, run, fsms, bi, dq, pre, nextId, clock>>

\* zfs recv <dst>@zfsbackrest-<id> takes the stream: a full one only into a
\* dataset that does not exist yet (--dst-dataset "will error if the dataset
\* already exists"), and none under the name of a snapshot that is there.
RecvAccepts(b) ==
  /\ <<Dst, b.id>> \notin snaps
  /\ b.depends_on = NoID => ~\E i \in IDs : <<Dst, i>> \in snaps

\* transition restore (ioOk: OpenSnapshotReadStream and Recv met no I/O
\* error): the remote object is read, decrypted and piped into zfs recv.
RestoreStep(ioOk) ==
  /\ pc = "restore" /\ dfsm.state = "parent_snapshot_exists"
  /\ Fault(ioOk, dfsm.retry)
  /\ IF /\ ioOk
        /\ remote[<<dfsm.backup.dataset, dfsm.backup.id>>] = "complete"
        /\ RecvAccepts(dfsm.backup)
     THEN /\ snaps' = snaps \cup {<<dfsm.dataset, dfsm.backup.id>>}
          /\ DAdvance("restored")
     ELSE RFail(FALSE, "io") /\ UNCHANGED snaps
  /\ UNCHANGED <<store, manifest, remote, run, fsms, bi, dq, pre, nextId, clock>>

\* transition complete of the restore FSM; Restore returns nil, and the
\* RestoreRecursive call that was waiting for it goes on with its own Restore.
RestoreComplete ==
  /\ UNCHANGED budget
  /\ pc = "restore" /\ dfsm.state = "restored"
  /\ run' = [run EXCEPT !.completed = Append(@, dfsm.backup.id)]
  /\ IF dq = <<>>
     THEN /\ dfsm' = [dfsm EXCEPT !.state = "completed"]
          /\ pc' = "done"
          /\ result' = [ok |-> TRUE, err |-> "none", op |-> "restore"]
          /\ intr' = NoIntr
          /\ UNCHANGED dq
     ELSE /\ dfsm' = NewRestoreFSM(Head(dq))
          /\ dq' = Tail(dq)
          /\ UNCHANGED <<pc, result, intr>>
  /\ UNCHANGED <<store, manifest, remote, snaps, fsms, bi, pre, nextId, clock>>

\* The backup command and restore.
NextRestore ==
  \/ \E cfg \in DatasetLists, accept, proceed, putOk \in BOOLEAN :
       NewRunnerFromExistingRepository(cfg, accept, proceed, putOk)
  \/ \E kind \in BackupTypes, exists \in BOOLEAN : BackupConcurrent(kind, exists)
  \/ \E ioOk \in BOOLEAN : GetParentStep(ioOk)
  \/ \E ioOk \in BOOLEAN : CreateSnapshotStep(ioOk)
  \/ CreateBackupManifestStep
  \/ \E putOk \in BOOLEAN : AddOrphanStep(putOk)
  \/ \E conc \in 1..MaxGoroutines : NewPool(conc)
  \/ UploadBegin
  \/ \E i \in 1..Cardinality(Datasets), ioOk \in BOOLEAN : UploadFinish(i, ioOk)
  \/ PoolWait
  \/ \E putOk \in BOOLEAN : UpdateStoreStep(putOk)
  \/ CompleteStep
  \/ \E id \in IDs, direct \in BOOLEAN : RestoreCmd(id, direct)
  \/ RestoreRecursive
  \/ Restore
  \/ \E ioOk \in BOOLEAN : CheckParentSnapshot(ioOk)
  \/ \E ioOk \in BOOLEAN : RestoreStep(ioOk)
  \/ RestoreComplete

SpecRestore == Init /\ [][NextRestore]_vars

\* ------------------------------------------------- the FSM runtime on its own
\* One FSM with the three transitions of createRestoreFSM, whose transition
\* functions succeed or fail as the caller of the step chooses, run by
\* RunSequence under main's context and signal handler.  Here dfsm is
\* FSM.current, run the frame of RunSequence and Run (with the retry runner
\* Run makes, main's ctx and softExit; prior: a runner of an earlier Run of
\* this FSM has granted a retry) and pc the position in them.
Transitions ==
  [check_parent_snapshot |-> [from |-> "initial", to |-> "parent_snapshot_exists"],
   restore |-> [from |-> "parent_snapshot_exists", to |-> "restored"],
   complete |-> [from |-> "restored", to |-> "completed"]]

\* The actions RunSequence is called with: those of the FSM and an unknown one.
FsmActions == (DOMAIN Transitions) \cup {"unknown"}

\* RetryExponentialBackoffConfig
RetryConfigs ==
  [maxRetries : 0..RetriesBound, inc : 0..IncrementBound, maxWait : 0..WaitBound]

\* The action lists RunSequence is called with.
ActionLists ==
  UNION {[1..n -> FsmActions] : n \in 1..SequenceBound}

\* NewFSM(name, State{ID: initial}, transitions, cfg) in a process that has
\* just started: ctx live, softExit false.
InitFSM ==
  /\ store = NewStore(<<"d1">>) /\ manifest = store
  /\ remote = [k \in Datasets \X IDs |-> "absent"]
  /\ snaps = {}
  /\ pc = "ready"
  /\ \E cfg \in RetryConfigs :
       run = [op |-> "fsm", cfg |-> cfg, seq |-> <<>>, currentRetry |-> 0,
              attempts |-> 0, waits |-> <<>>, wait |-> 0, left |-> 0, err |-> "none",
              ctx |-> "live", softExit |-> FALSE, handler |-> "waiting",
              prior |-> FALSE]
  /\ fsms = <<>>
  /\ bi = 0
  /\ dfsm = [state |-> "initial", terminal |-> FALSE]
  /\ dq = <<>>
  /\ result = NoResult
  /\ pre = manifest
  /\ intr = NoIntr
  /\ nextId = 1
  /\ clock = 1
  /\ budget = [left |-> MaxUpsets, flags |-> {}]

\* What no step of the FSM runtime touches.
FsmRest == <<store, manifest, remote, snaps, fsms, bi, dq, pre, intr, nextId,
             clock, budget>>

\* FSM.RunSequence(ctx, actions...) is called.
FsmRunSequence(actions) ==
  /\ pc \in {"ready", "done"}
  /\ run' = [run EXCEPT !.seq = actions, !.currentRetry = 0, !.attempts = 0,
                        !.waits = <<>>, !.wait = 0, !.left = 0, !.err = "none",
                        !.prior = (@ \/ run.currentRetry > 0)]
  /\ pc' = "run"
  /\ UNCHANGED <<dfsm, result>>
  /\ UNCHANGED FsmRest

\* Run returns err to RunSequence, which returns it.
FsmReturn(err) ==
  /\ pc' = "done"
  /\ result' = [ok |-> FALSE, err |-> err, op |-> "fsm"]

\* Run with a retry runner shared by all Runs of the FSM in place of
\* retryStrategy.New(): the counter of the earlier Runs is kept.
FsmRunSharedRunner ==
  /\ pc = "run"
  /\ LET action == Head(run.seq) IN
     IF dfsm.terminal THEN FsmReturn("Terminal") /\ UNCHANGED run
     ELSE IF action \notin DOMAIN Transitions
     THEN FsmReturn("TransitionNotFound") /\ UNCHANGED run
     ELSE IF Transitions[action].from # dfsm.state
     THEN /\ FsmReturn("InvalidTransition")
          /\ run' = [run EXCEPT !.attempts = 0, !.waits = <<>>, !.wait = 0,
                                   !.prior = (@ \/ run.currentRetry > 0)]
     ELSE /\ run' = [run EXCEPT !.attempts = 0, !.waits = <<>>, !.wait = 0,
                                   !.prior = (@ \/ run.currentRetry > 0)]
          /\ pc' = "top"
          /\ UNCHANGED result
  /\ UNCHANGED dfsm
  /\ UNCHANGED FsmRest

\* Run that does not compare the transition's From with the current state.
FsmRunNoFromCheck ==
  /\ pc = "run"
  /\ LET action == Head(run.seq) IN
     IF dfsm.terminal THEN FsmReturn("Terminal") /\ UNCHANGED run
     ELSE IF action \notin DOMAIN Transitions
     THEN FsmReturn("TransitionNotFound") /\ UNCHANGED run
     ELSE /\ run' = [run EXCEPT !.currentRetry = 0, !.attempts = 0, !.waits = <<>>,
                                   !.wait = 0, !.prior = (@ \/ run.currentRetry > 0)]
          /\ pc' = "top"
          /\ UNCHANGED result
  /\ UNCHANGED dfsm
  /\ UNCHANGED FsmRest

\* FSM.Run(ctx, Head(run.seq)) up to its loop: the terminal check, the lookup
\* of the transition, retryStrategy.New() and the check of From.
FsmRun ==
  /\ pc = "run"
  /\ LET action == Head(run.seq) IN
     IF dfsm.terminal THEN FsmReturn("Terminal") /\ UNCHANGED run
     ELSE IF action \notin DOMAIN Transitions
     THEN FsmReturn("TransitionNotFound") /\ UNCHANGED run
     ELSE IF Transitions[action].from # dfsm.state
     THEN /\ FsmReturn("InvalidTransition")
          /\ run' = [run EXCEPT !.currentRetry = 0, !.attempts = 0, !.waits = <<>>,
                                   !.wait = 0, !.prior = (@ \/ run.currentRetry > 0)]
     ELSE /\ run' = [run EXCEPT !.currentRetry = 0, !.attempts = 0, !.waits = <<>>,
                                   !.wait = 0, !.prior = (@ \/ run.currentRetry > 0)]
          /\ pc' = "top"
          /\ UNCHANGED result
  /\ UNCHANGED dfsm
  /\ UNCHANGED FsmRest

\* The select at the top of Run's loop: return ctx.Err() when ctx is done,
\* else call transition.Run.
FsmSelect ==
  /\ pc = "top"
  /\ IF run.ctx = "cancelled"
     THEN FsmReturn("Cancelled") /\ UNCHANGED run
     ELSE /\ run' = [run EXCEPT !.attempts = @ + 1]
          /\ pc' = "attempt"
          /\ UNCHANGED result
  /\ UNCHANGED dfsm
  /\ UNCHANGED FsmRest

\* transition.Run returns: nil ("ok"), a plain error ("recoverable") or one
\* made by NewUnrecoverableError.  On nil Run sets current to the
\* transition's To and returns, and RunSequence goes on with the next action
\* or returns nil after the last.
FsmTransitionRun(outcome) ==
  /\ pc = "attempt"
  /\ IF outcome = "ok"
     THEN /\ dfsm' = [dfsm EXCEPT !.state = Transitions[Head(run.seq)].to]
          /\ run' = [run EXCEPT !.seq = Tail(@)]
          /\ IF Tail(run.seq) = <<>>
             THEN pc' = "done" /\ result' = [ok |-> TRUE, err |-> "none", op |-> "fsm"]
             ELSE pc' = "run" /\ UNCHANGED result
     ELSE /\ run' = [run EXCEPT !.err = outcome]
          /\ pc' = "failed"
          /\ UNCHANGED <<dfsm, result>>
  /\ UNCHANGED FsmRest

\* The select after a failed attempt, then retryRunner.RetryAfter(err): Run
\* returns ctx.Err() or RetryAfter's error, or goes to sleep for its wait.
\* wait is the duration RetryAfter returned last, waits those it granted.
FsmRetryAfter ==
  /\ pc = "failed"
  /\ LET ra == RetryAfter(run.currentRetry, run.cfg.maxRetries,
                          run.err = "unrecoverable", "Unrecoverable")
         wait == RetryWait(run.currentRetry, run.cfg.inc, run.cfg.maxWait)
     IN IF run.ctx = "cancelled" THEN FsmReturn("Cancelled") /\ UNCHANGED run
        ELSE IF ~ra.again
        THEN /\ FsmReturn(ra.err)
             /\ run' = [run EXCEPT !.currentRetry = ra.retry, !.wait = 0]
        ELSE /\ run' = [run EXCEPT !.currentRetry = ra.retry, !.wait = wait,
                                   !.left = wait, !.waits = Append(@, wait)]
             /\ pc' = "sleep"
             /\ UNCHANGED result
  /\ UNCHANGED dfsm
  /\ UNCHANGED FsmRest

\* time.Sleep(wait): one tick of it passes.
FsmSleepTick ==
  /\ pc = "sleep" /\ run.left > 0
  /\ run' = [run EXCEPT !.left = @ - 1]
  /\ UNCHANGED <<pc, dfsm, result>>
  /\ UNCHANGED FsmRest

\* time.Sleep(wait) returns: the wait has passed.
FsmSleepReturn ==
  /\ pc = "sleep" /\ run.left = 0
  /\ pc' = "top"
  /\ UNCHANGED <<run, dfsm, result>>
  /\ UNCHANGED FsmRest

\* main's signal handler receives SIGINT or SIGTERM: the first sets softExit,
\* the second calls cancel() and goes on to os.Exit(1).
Signal ==
  /\ pc # "exited" /\ run.handler = "waiting"
  /\ run' = IF ~run.softExit THEN [run EXCEPT !.softExit = TRUE]
            ELSE [run EXCEPT !.ctx = "cancelled", !.handler = "exiting"]
  /\ UNCHANGED <<pc, dfsm, result>>
  /\ UNCHANGED FsmRest

\* os.Exit(1) of the signal handler: the process is gone.
OsExit ==
  /\ pc # "exited" /\ run.handler = "exiting"
  /\ pc' = "exited"
  /\ UNCHANGED <<run, dfsm, result>>
  /\ UNCHANGED FsmRest

NextFSM ==
  \/ \E actions \in ActionLists : FsmRunSequence(actions)
  \/ FsmRun
  \/ FsmSelect
  \/ \E outcome \in {"ok", "recoverable", "unrecoverable"} : FsmTransitionRun(outcome)
  \/ FsmRetryAfter
  \/ FsmSleepTick
  \/ FsmSleepReturn
  \/ Signal
  \/ OsExit

SpecFSM == InitFSM /\ [][NextFSM]_vars

\* The goroutine that called Run keeps running: the selects and RetryAfter
\* are taken, the transition function returns and time.Sleep ends.
SpecFSMFair ==
  /\ SpecFSM
  /\ WF_vars(FsmSelect)
  /\ WF_vars(\E outcome \in {"ok", "recoverable", "unrecoverable"} :
               FsmTransitionRun(outcome))
  /\ WF_vars(FsmRetryAfter)
  /\ WF_vars(FsmSleepTick)
  /\ WF_vars(FsmSleepReturn)

\* ------------------------------------------------- Backups.Expired on its own
\* The CreatedAt values of the maps below: past, now and in the future.
CreatedAts == 1..(ExpiredNow + 1)

\* Backups maps as a manifest can hold them, valid chains and invalid ones:
\* every key maps to a backup with that ID, of any type, age and depends_on.
AnyBackups(ids) ==
  UNION {
    {[i \in S |-> [id |-> i, kind |-> k[i], created_at |-> c[i],
                   depends_on |-> d[i], dataset |-> "d1", size |-> 0]] :
       k \in [S -> BackupTypes], c \in [S -> CreatedAts],
       d \in {f \in [S -> {NoID} \cup IDs] : \A i \in S : f[i] # i}} :
    S \in SUBSET ids}

\* A loaded store with any backups map, and an expiry config.
InitExpired ==
  /\ \E bs \in AnyBackups(IDs) :
       store = [NewStore(<<"d1">>) EXCEPT !.backups = bs]
  /\ manifest = store
  /\ \E e \in Expiries : run = [op |-> "expired", expiry |-> e]
  /\ remote = [k \in Datasets \X IDs |-> "absent"]
  /\ snaps = {}
  /\ pc = "ready"
  /\ fsms = <<>>
  /\ bi = 0
  /\ dfsm = NoDfsm
  /\ dq = <<>>
  /\ result = NoResult
  /\ pre = manifest
  /\ intr = NoIntr
  /\ nextId = 1
  /\ clock = ExpiredNow
  /\ budget = [left |-> MaxUpsets, flags |-> {}]

\* One call store.Backups.Expired(id, expiry); result is what it returned.
ExpiredCall(id) ==
  /\ pc = "ready" /\ run.op = "expired"
  /\ LET r == Expired(store.backups, id, run.expiry, clock) IN
     result' = [ok |-> r.err = "none", err |-> r.err, op |-> "expired",
                id |-> id, value |-> r.value]
  /\ pc' = "done"
  /\ UNCHANGED <<store, manifest, remote, snaps, run, fsms, bi, dfsm, dq, pre,
                 intr, nextId, clock, budget>>

NextExpired == \E id \in IDs : ExpiredCall(id)

SpecExpired == InitExpired /\ [][NextExpired]_vars

\* ------------------------------------------------------------------ claims
\* The store invariants, stated on a manifest content s.
StoreInvariants(s) ==
  /\ s.version = 1
  /\ (DOMAIN s.backups) \cap (DOMAIN s.orphans) = {}
  /\ \A k \in DOMAIN s.backups :
       LET b == s.backups[k] IN
       /\ b.id = k
       /\ b.kind = BackupTypeFull => b.depends_on = NoID
       /\ b.kind = BackupTypeDiff =>
            b.depends_on \in DOMAIN s.backups
              /\ s.backups[b.depends_on].kind = BackupTypeFull
       /\ b.kind = BackupTypeIncr =>
            b.depends_on \in DOMAIN s.backups
              /\ s.backups[b.depends_on].kind = BackupTypeDiff

\* C1: whatever sequence of backups, deletes (any DeleteOpts), reconciliations,
\* failures and kills has run, the manifest object (the content of the last
\* successful Store.Save) satisfies the store invariants: a store violating
\* one of them is never written.
C1_SavedManifestValid == StoreInvariants(manifest)

\* C1 witness: the orphan transition of a delete has had a Save refused, the
\* in-memory store (a full removed from under its diff) violating the
\* invariants, and the manifest object is still the valid one.
C1_Witness ==
  /\ pc = "delete" /\ dfsm.state = "prerequisites_verified" /\ dfsm.retry = 1
  /\ ~StoreInvariants(store)
  /\ manifest # store

\* The backup with the greatest created_at among those of bs with that kind
\* and dataset (NoID when there is none).
NewestOf(bs, dataset, kind) ==
  LET cand == {i \in DOMAIN bs : bs[i].kind = kind /\ bs[i].dataset = dataset}
  IN IF cand = {} THEN NoID
     ELSE CHOOSE i \in cand : \A j \in cand \ {i} : bs[j].created_at < bs[i].created_at

\* What depends_on of a new backup of that kind must be, given the backups bs.
ExpectedParent(bs, dataset, kind) ==
  IF kind = BackupTypeFull THEN NoID
  ELSE IF kind = BackupTypeDiff THEN NewestOf(bs, dataset, BackupTypeFull)
  ELSE NewestOf(bs, dataset, BackupTypeDiff)

\* The manifest `after` is `before` plus exactly one backup per dataset of
\* ds, of that kind, depending on the right parent, with its remote object
\* complete, and the orphans of `before`.
OneBackupEach(before, after, ds, kind) ==
  LET new == (DOMAIN after.backups) \ (DOMAIN before.backups) IN
  /\ \A k \in DOMAIN before.backups :
       k \in DOMAIN after.backups /\ after.backups[k] = before.backups[k]
  /\ Cardinality(new) = Len(ds)
  /\ \A i \in DOMAIN ds :
       \E k \in new :
         /\ after.backups[k].dataset = ds[i]
         /\ after.backups[k].kind = kind
         /\ after.backups[k].id = k
         /\ after.backups[k].depends_on = ExpectedParent(before.backups, ds[i], kind)
         /\ kind # BackupTypeFull => after.backups[k].depends_on # NoID
         /\ remote[<<ds[i], k>>] = "complete"
  /\ new \cap (DOMAIN after.orphans) = {}
  /\ after.orphans = before.orphans

\* BackupConcurrent has returned nil.
BackupSucceeded == pc = "done" /\ result.op = "backup" /\ result.ok

\* C2: when BackupConcurrent(kind, datasets) returns success, the manifest
\* has gained exactly one backup per dataset, of the requested kind and
\* dataset, depending on nothing (full), on the dataset's latest full (diff)
\* or on its latest diff (incr); each new ID has its remote object, and none
\* of them is left in the orphans.
C2_BackupSuccess ==
  BackupSucceeded => OneBackupEach(pre, manifest, run.datasets, run.kind)

\* C2 witness: an incr run over a full and a diff has returned success.
C2_Witness ==
  /\ BackupSucceeded /\ run.kind = BackupTypeIncr
  /\ Cardinality(DOMAIN manifest.backups) = 3

\* C3: an ID becomes a key of the saved manifest's backups only in a save
\* before which the manifest had it as an orphan with reason Uncommitted and
\* its upload_snapshot had completed (the object is whole, the FSM is in
\* uploaded_snapshot), and that same save removes it from the orphans.
C3_OrphanThenUploadThenBackup ==
  [][\A id \in IDs :
       (id \notin DOMAIN manifest.backups /\ id \in DOMAIN manifest'.backups) =>
         /\ id \in DOMAIN manifest.orphans
         /\ manifest.orphans[id].reason = OrphanReasonUncommitted
         /\ id \notin DOMAIN manifest'.orphans
         /\ pc = "backup2" /\ fsms[bi].manifest.id = id
         /\ fsms[bi].state = "uploaded_snapshot" /\ fsms[bi].up = "done"
         /\ remote[<<fsms[bi].dataset, id>>] = "complete"]_vars

\* C3 witness: a backup run of two datasets has committed its first ID while
\* the second, uploaded, is still an orphan.
C3_Witness ==
  /\ pc = "backup2" /\ Len(fsms) = 2
  /\ fsms[1].state = "updated_store" /\ fsms[1].manifest.id \in DOMAIN manifest.backups
  /\ fsms[2].manifest.id \in DOMAIN manifest.orphans

\* C4: in runs that use no skip flag, every step (kills included) leads to
\* a state in which each backup of the manifest object has its complete
\* remote object, and a step that removes a remote object finds its ID in
\* the manifest's orphans and not in its backups; with the reason
\* StartedDeletion when Delete was called on a backup.
C4_IntentBeforeActing ==
  [][budget'.flags = {} =>
       /\ \A id \in DOMAIN manifest'.backups :
            remote'[<<manifest'.backups[id].dataset, id>>] = "complete"
       /\ \A k \in DOMAIN remote :
            (remote[k] # "absent" /\ remote'[k] = "absent") =>
              /\ k[2] \notin DOMAIN manifest.backups
              /\ k[2] \in DOMAIN manifest.orphans
              /\ manifest.orphans[k[2]].backup.dataset = k[1]
              /\ ~dfsm.orphan =>
                   manifest.orphans[k[2]].reason = OrphanReasonStartedDeletion]_vars

\* C4 witness: a Delete of a backup, without skip flags, has removed the
\* remote object; the manifest has the ID as an orphan of a started deletion.
C4_Witness ==
  /\ budget.flags = {}
  /\ pc = "delete" /\ dfsm.state = "remote_removed" /\ ~dfsm.orphan
  /\ remote[<<dfsm.dataset, dfsm.backup.id>>] = "absent"
  /\ dfsm.backup.id \in DOMAIN manifest.orphans
  /\ manifest.orphans[dfsm.backup.id].reason = OrphanReasonStartedDeletion

\* C5: as long as no delete was given skip_remote_snapshot_removal, every
\* remote object that exists, whole or in part, has its ID among the backups
\* or the orphans of the manifest object; also after a kill.
C5_NoUnlistedObject ==
  "skipRemote" \notin budget.flags =>
    \A k \in DOMAIN remote :
      remote[k] # "absent" =>
        k[2] \in (DOMAIN manifest.backups) \cup (DOMAIN manifest.orphans)

\* C5 witness: a kill during an upload has left a part of an object, and the
\* manifest lists its ID as an orphan.
C5_Witness ==
  /\ pc = "idle" /\ budget.left = 0 /\ budget.flags = {}
  /\ \E k \in DOMAIN remote :
       remote[k] = "partial" /\ k[2] \in DOMAIN manifest.orphans

\* A backup run is at, or has stopped at, a point where it still holds its FSMs.
InBackupRun ==
  \/ pc \in {"backup1", "pool", "upload", "backup2"}
  \/ pc = "done" /\ result.op = "backup"

\* Runner.DeleteAllOrphans, not a dry run and removing remote objects, has
\* returned nil.
SweptOrphans ==
  /\ pc = "done" /\ result.op = "delete_all_orphans" /\ result.ok
  /\ ~run.opts.dryRun /\ ~run.opts.skipRemote

ParentMissing(f) ==
  f.kind # BackupTypeFull /\ ExpectedParent(pre.backups, f.dataset, f.kind) = NoID

\* C7: a backup FSM whose dataset lacks the parent its kind needs never gets
\* past get_parent: its ID is in no map of the manifest, it has no snapshot
\* and no remote object; its run returns ErrParentBackupNotFound, and when
\* it is the first dataset of the run the manifest is the one loaded.
C7_ParentNotFound ==
  InBackupRun =>
    /\ \A i \in DOMAIN fsms :
         ParentMissing(fsms[i]) =>
           /\ fsms[i].state = "initial"
           /\ fsms[i].id \notin (DOMAIN manifest.backups) \cup (DOMAIN manifest.orphans)
           /\ fsms[i].id \notin (DOMAIN store.backups) \cup (DOMAIN store.orphans)
           /\ <<fsms[i].dataset, fsms[i].id>> \notin snaps
           /\ remote[<<fsms[i].dataset, fsms[i].id>>] = "absent"
    /\ (pc = "done" /\ bi \in DOMAIN fsms /\ ParentMissing(fsms[bi])) =>
         /\ ~result.ok /\ result.err = "ErrParentBackupNotFound"
         /\ bi = 1 => manifest = pre /\ store = pre

\* C7 witness: a diff run on a manifest that has backups, none of them a
\* full of the dataset, has returned ErrParentBackupNotFound.
C7_Witness ==
  /\ pc = "done" /\ result.op = "backup" /\ result.err = "ErrParentBackupNotFound"
  /\ run.kind = BackupTypeDiff /\ bi = 1
  /\ manifest.backups # EmptyMap

\* The FSM f has completed the first four transitions.
Phase1Complete(f) ==
  f.state \in {"added_orphan", "uploaded_snapshot", "updated_store", "completed"}

\* C10: an upload has started only when every FSM of the run has completed
\* get_parent .. add_orphan and its orphan is saved; the first loop and the
\* second loop are at one FSM at a time, in the order of the dataset list;
\* uploads run only in between.
C10_PhaseOrder ==
  InBackupRun =>
    /\ (\E i \in DOMAIN fsms : fsms[i].up # "queued") =>
         \A j \in DOMAIN fsms :
           /\ Phase1Complete(fsms[j])
           /\ fsms[j].id \in (DOMAIN manifest.orphans) \cup (DOMAIN manifest.backups)
    /\ Uploading > 0 => pc = "upload"
    /\ \A j \in DOMAIN fsms : fsms[j].dataset = run.datasets[j]
    /\ pc = "backup1" =>
         /\ \A j \in 1..(bi - 1) : fsms[j].state = "added_orphan"
         /\ \A j \in (bi + 1)..Len(fsms) : fsms[j].state = "initial"
    /\ pc = "upload" =>
         \A j \in DOMAIN fsms : fsms[j].state \in {"added_orphan", "uploaded_snapshot"}
    /\ pc = "backup2" =>
         /\ \A j \in 1..(bi - 1) : fsms[j].state = "completed"
         /\ fsms[bi].state \in {"uploaded_snapshot", "updated_store"}
         /\ \A j \in (bi + 1)..Len(fsms) : fsms[j].state = "uploaded_snapshot"

\* C10 witness: the uploads of two datasets are in progress at once.
C10_Witness == pc = "upload" /\ Uploading = 2

\* A store-mutating transition is about to be attempted again (its earlier
\* attempts ended in a failed Save), in a run without skip flags.
RetryingSave ==
  /\ budget.flags = {}
  /\ \/ /\ pc = "backup1" /\ fsms[bi].state = "created_backup_manifest"
        /\ fsms[bi].retry > 0
     \/ /\ pc = "backup2" /\ fsms[bi].state = "uploaded_snapshot"
        /\ fsms[bi].retry > 0
     \/ /\ pc = "delete" /\ dfsm.state = "prerequisites_verified"
        /\ ~run.opts.dryRun /\ ~run.opts.skipOrphan /\ dfsm.retry > 0
     \/ /\ pc = "delete" /\ dfsm.state = "remote_removed" /\ dfsm.retry > 0

\* The store the transition being retried is to save, computed from the
\* manifest object, which is what the store was before the first attempt.
FirstAttemptStore ==
  IF pc = "backup1"
  THEN AddOrphan(manifest, fsms[bi].manifest, OrphanReasonUncommitted).store
  ELSE IF pc = "backup2"
  THEN AddBackup(RemoveOrphan(manifest, fsms[bi].manifest).store,
                 [fsms[bi].manifest EXCEPT !.size = fsms[bi].size]).store
  ELSE IF dfsm.state = "prerequisites_verified"
  THEN AddOrphan(RemoveBackup(manifest, dfsm.backup.id).store, dfsm.backup,
                 OrphanReasonStartedDeletion).store
  ELSE RemoveOrphan(manifest, dfsm.backup).store

\* The retry counter of the FSM at work.
CurrentRetry == IF pc = "delete" THEN dfsm.retry ELSE fsms[bi].retry

\* C8: the retry of add_orphan, update_store (backup), orphan or update_store
\* (delete) after a failed Save either has its Save fail again (nothing is
\* written, another retry is granted or the retries are exhausted) or
\* succeeds, and then the store and the manifest are those a successful first
\* attempt would have left.
C8_RetryIdempotent ==
  [][(RetryingSave /\ pc' # "idle") =>
       \/ /\ manifest' = manifest
          /\ \/ pc' = pc /\ CurrentRetry' = CurrentRetry + 1
             \/ pc' = "done" /\ result'.err = "RetryAttemptsExhausted"
       \/ /\ manifest' = FirstAttemptStore
          /\ store' = FirstAttemptStore]_vars

\* A backup run that repeats the interrupted one has returned nil.
RerunSucceeded == BackupSucceeded /\ run.rerun

\* C9 as stated: when the run that repeats an interrupted backup run
\* succeeds, the manifest is the one an uninterrupted run from the
\* interrupted run's starting manifest leaves, up to the IDs: that manifest
\* plus one backup per dataset, and its orphans.
C9_SameAsUninterrupted ==
  RerunSucceeded => OneBackupEach(run.base, manifest, run.datasets, run.kind)

\* What an interrupted run of that kind over ds, started on `before`, may
\* have left in `after`: per dataset at most one entry more, an Uncommitted
\* orphan or a backup, of the run's kind.
Leftovers(before, after, ds, kind) ==
  LET lo == (DOMAIN after.orphans) \ (DOMAIN before.orphans)
      lb == (DOMAIN after.backups) \ (DOMAIN before.backups)
      On(d) == {k \in lo : after.orphans[k].backup.dataset = d}
                 \cup {k \in lb : after.backups[k].dataset = d}
  IN /\ \A k \in DOMAIN before.orphans :
          k \in DOMAIN after.orphans /\ after.orphans[k] = before.orphans[k]
     /\ \A k \in DOMAIN before.backups :
          k \in DOMAIN after.backups /\ after.backups[k] = before.backups[k]
     /\ \A k \in lo :
          /\ after.orphans[k].reason = OrphanReasonUncommitted
          /\ after.orphans[k].backup.kind = kind
          /\ \E i \in DOMAIN ds : ds[i] = after.orphans[k].backup.dataset
     /\ \A k \in lb :
          /\ after.backups[k].kind = kind
          /\ \E i \in DOMAIN ds : ds[i] = after.backups[k].dataset
     /\ \A i \in DOMAIN ds : Cardinality(On(ds[i])) <= 1

\* C9 amended: the run that repeats an interrupted backup run adds to the
\* manifest it finds exactly what an uninterrupted run adds (one backup per
\* dataset, no orphan), and the manifest it finds is the interrupted run's
\* starting manifest plus what that run had saved: per dataset nothing, its
\* Uncommitted orphan, or its backup.  These stay in the final manifest.
C9_RerunKeepsLeftovers ==
  RerunSucceeded =>
    /\ OneBackupEach(pre, manifest, run.datasets, run.kind)
    /\ Leftovers(run.base, pre, run.datasets, run.kind)

\* C9 witness: the repeated run has succeeded on a manifest that holds the
\* Uncommitted orphan of the interrupted run.
C9_Witness ==
  /\ RerunSucceeded
  /\ \E k \in (DOMAIN manifest.orphans) \ (DOMAIN run.base.orphans) :
       manifest.orphans[k].reason = OrphanReasonUncommitted

\* C11: at every moment of BackupConcurrent the number of upload_snapshot
\* transitions in progress (started, not yet returned, retries included) is at
\* most the upload_concurrency the pool was made with.
C11_UploadsBounded == run.op = "backup" => Uploading <= run.conc

\* C11 witness: the pool is full and pool.Go of the next FSM is blocked.
C11_Witness ==
  /\ pc = "upload" /\ run.conc = 1 /\ Uploading = 1
  /\ bi \in DOMAIN fsms /\ fsms[bi].up = "queued"

\* The process was killed in this step (its memory is lost, which is not a
\* call on the Store).
Killed == pc' = "idle" /\ pc \notin {"idle", "done"}

\* C12: a step that writes the manifest object or mutates the in-memory Store
\* (Save, AddOrphan, RemoveOrphan, AddBackup, RemoveBackup) is never taken
\* while the upload pool exists or an upload_snapshot transition is running.
C12_NoStoreCallDuringUploads ==
  [][((store' # store /\ ~Killed) \/ manifest' # manifest)
       => (Uploading = 0 /\ pc \notin {"pool", "upload"})]_vars

\* C12 witness: after two uploads ran side by side, update_store has saved the
\* first backup and is about to run for the second.
C12_Witness ==
  /\ pc = "backup2" /\ Len(fsms) = 2 /\ run.conc = 2 /\ bi = 2
  /\ fsms[1].state = "completed" /\ fsms[2].state = "uploaded_snapshot"
  /\ fsms[1].id \in DOMAIN manifest.backups

\* Delete's FSM is at verify_prerequisites for a backup (not an orphan) that
\* some backup of store.backups depends on.
AtVerifyWithChild ==
  /\ pc = "delete" /\ dfsm.state = "initial" /\ ~run.opts.skipPrereq
  /\ ~dfsm.orphan
  /\ \E c \in DOMAIN store.backups : store.backups[c].depends_on = dfsm.backup.id

\* Every depends_on of bs is a key of bs.
ParentsPresent(bs) ==
  \A c \in DOMAIN bs : bs[c].depends_on # NoID => bs[c].depends_on \in DOMAIN bs

\* C13: verify_prerequisites on a backup with a child in store.backups fails
\* with the Unrecoverable "has dependent backups" at its first attempt (no
\* retry) and leaves store, manifest object, remote objects and local
\* snapshots as they were; and as long as no delete was given
\* skip_prerequisites_verification, no backup of the store or of the manifest
\* object lacks its parent.
C13_ParentWithChildrenKept ==
  [][/\ (AtVerifyWithChild /\ ~Killed) =>
          /\ pc' = "done" /\ ~result'.ok /\ result'.err = "HasDependentBackups"
          /\ dfsm.retry = 0 /\ dfsm' = dfsm
          /\ UNCHANGED <<store, manifest, remote, snaps>>
     /\ "skipPrereq" \notin budget'.flags =>
          ParentsPresent(store'.backups) /\ ParentsPresent(manifest'.backups)]_vars

\* C13 witness: the delete of a Full that a Diff depends on has been refused
\* and both are still backups.
C13_Witness ==
  /\ pc = "done" /\ result.op = "delete" /\ result.err = "HasDependentBackups"
  /\ dfsm.backup.id \in DOMAIN manifest.backups
  /\ \E c \in DOMAIN manifest.backups : manifest.backups[c].depends_on = dfsm.backup.id
  /\ remote[<<dfsm.dataset, dfsm.backup.id>>] = "complete"

\* C16: a Delete with skip_orphaning against a key of store.backups changes
\* nothing: no remote object removed, no local snapshot destroyed, store and
\* manifest object as before.
C16_SkipOrphaningRefused ==
  [][(pc = "delete" /\ run.opts.skipOrphan /\ ~dfsm.orphan /\ ~Killed)
       => UNCHANGED <<store, manifest, remote, snaps>>]_vars

\* A delete command with dry_run is running.
InDryRun == pc \in {"driver", "delete"} /\ run.opts.dryRun

\* C17: a Delete with dry_run runs the prerequisite step and dry_run and
\* nothing else, whatever its other options: no step of it changes the store,
\* the manifest object, a remote object or a local snapshot.
C17_DryRunTouchesNothing ==
  [][InDryRun =>
       /\ UNCHANGED <<store, manifest, remote, snaps>>
       /\ pc' = "delete" =>
            dfsm'.state \in {"initial", "prerequisites_verified", "completed"}]_vars

\* C17 witness: a dry run given every skip flag has completed for a backup,
\* which is still a backup with its remote object and its local snapshot.
C17_Witness ==
  /\ pc = "done" /\ result.op = "delete" /\ result.ok
  /\ run.opts.dryRun /\ SkipFlags(run.opts) = {"skipPrereq", "skipOrphan", "skipLocal", "skipRemote"}
  /\ dfsm.state = "completed" /\ ~dfsm.orphan
  /\ dfsm.backup.id \in DOMAIN manifest.backups
  /\ remote[<<dfsm.dataset, dfsm.backup.id>>] = "complete"
  /\ <<dfsm.dataset, dfsm.backup.id>> \in snaps

\* Expired(id) has returned a boolean for a valid chain.
ExpiredAnswered ==
  /\ pc = "done" /\ result.op = "expired"
  /\ BackupsValidate(store.backups, result.id, clock) = "ok"

\* The backup's own age exceeds the TTL of its kind.
OwnAgeExpired(bs, id, expiry, now) ==
  bs[id].created_at + expiry[bs[id].kind] < now

\* The backup, its parent and its parent's parent (a chain is Full, Diff, Incr).
ChainOf(bs, id) ==
  LET p == bs[id].depends_on
      g == IF p = NoID THEN NoID ELSE bs[p].depends_on
  IN {id, p, g} \ {NoID}

\* C18: on a valid chain Expired(id) returns no error and true exactly when
\* the own age of the backup, of its parent or of its parent's parent exceeds
\* the TTL of that backup's kind; on an invalid chain it returns the
\* validation error.
C18_ExpiredOwnAgeOrAncestor ==
  (pc = "done" /\ result.op = "expired") =>
    LET bs == store.backups
        v == BackupsValidate(bs, result.id, clock)
    IN IF v # "ok" THEN ~result.ok /\ result.err = v
       ELSE /\ result.ok /\ result.err = "none"
            /\ result.value =
                 (\E a \in ChainOf(bs, result.id) : OwnAgeExpired(bs, a, run.expiry, clock))

\* C18 witness: an Incr that is young enough itself, as is its Diff, is
\* expired because its Full is.
C18_Witness ==
  /\ ExpiredAnswered /\ result.value
  /\ store.backups[result.id].kind = BackupTypeIncr
  /\ run.expiry = [full |-> 0, diff |-> MaxId + 1, incr |-> MaxId + 1]

InSweep == run.op = "delete_all_expired" /\ run.dataset # "none"

\* The backups of the dataset being swept that were expired when its sweep
\* started: own age, parent's or parent's parent's beyond the TTL.
ExpiredAtStart ==
  {i \in DOMAIN run.bs0 :
     /\ run.bs0[i].dataset = run.dataset
     /\ \E a \in ChainOf(run.bs0, i) : OwnAgeExpired(run.bs0, a, run.expiry, clock)}

\* The elements of a sequence.
Range(q) == {q[i] : i \in DOMAIN q}

\* C14: DeleteExpired issues its Deletes in strictly descending ID order: a
\* Delete is issued (no other Delete running) for an expired backup of the
\* dataset whose ID is below every ID issued before, when every expired
\* backup with a higher ID has been issued; after a failed Delete no further
\* one is issued; and when the loop is over all of them have been issued.
C14_DescendingOrder ==
  [][InSweep =>
       /\ (pc = "driver" /\ pc' = "delete") =>
            /\ dfsm'.backup.id \in ExpiredAtStart
            /\ \A i \in DOMAIN run.issued : run.issued[i] > dfsm'.backup.id
            /\ \A e \in ExpiredAtStart :
                 e > dfsm'.backup.id => e \in Range(run.issued)
            /\ run'.issued = Append(run.issued, dfsm'.backup.id)
       /\ (pc = "done" /\ ~result.ok) => run'.op # "delete_all_expired"
       /\ (pc = "driver" /\ dq = <<>>) => Range(run.issued) = ExpiredAtStart]_vars

\* C14 witness: a sweep has deleted an Incr, its Diff and their Full in that
\* order.
C14_Witness ==
  /\ pc = "done" /\ result.op = "delete_all_expired" /\ result.ok
  /\ ~run.opts.dryRun /\ Len(run.issued) = 3
  /\ run.bs0[run.issued[1]].kind = BackupTypeIncr
  /\ run.bs0[run.issued[3]].kind = BackupTypeFull

\* An expired sweep with no skip flag and dry_run = false.
PlainSweep ==
  /\ run.op = "delete_all_expired"
  /\ SkipFlags(run.opts) = {} /\ ~run.opts.dryRun

\* C15: an expired sweep with no skip flag and dry_run = false never fails a
\* prerequisite check: no backup depends on the one Delete is running for;
\* and a sweep during which nothing failed returns nil and leaves no expired
\* backup of a managed dataset in the manifest object.
C15_SweepNeverBlocked ==
  PlainSweep =>
    /\ pc = "done" => result.err # "HasDependentBackups"
    /\ (pc = "delete" /\ ~dfsm.orphan) =>
         \A c \in DOMAIN store.backups : store.backups[c].depends_on # dfsm.backup.id
    /\ (pc = "done" /\ budget.left = run.left0) =>
         /\ result.ok
         /\ \A i \in DOMAIN manifest.backups :
              (\E k \in DOMAIN manifest.managed :
                 manifest.managed[k] = manifest.backups[i].dataset)
              => \A a \in ChainOf(manifest.backups, i) :
                   ~OwnAgeExpired(manifest.backups, a, run.expiry, clock)

\* C15 witness: a Full was expired and its Diff only through it; the sweep
\* deleted the Diff, then the Full, and returned nil.
C15_Witness ==
  /\ PlainSweep /\ pc = "done" /\ result.ok
  /\ run.expiry.full = 0 /\ run.expiry.diff = MaxId + 1
  /\ Len(run.issued) = 2
  /\ run.bs0[run.issued[1]].depends_on = run.issued[2]
  /\ run.issued[1] \notin DOMAIN manifest.backups
  /\ run.issued[2] \notin DOMAIN manifest.backups

\* The snapshots the running restore command has put on the destination.
Restored == {i \in IDs : <<Dst, i>> \in snaps \ run.snaps0}

\* C20: RestoreRecursive restores parent-first.  The restores completed so
\* far are a chain from the root Full downwards and the only snapshots the
\* command has put on the destination; the restore transition (recv) of a
\* backup with a parent runs only with the parent's snapshot on the
\* destination and, under RestoreRecursive, right after the parent's restore
\* has completed (first of all for the root); when the command fails, the
\* backup being restored and the callers waiting on it have nothing
\* restored; and check_parent_snapshot of a backup whose parent's snapshot is
\* absent never reaches recv and never changes a snapshot: it ends the
\* command with the Unrecoverable error, or SnapshotExists itself failed and
\* is retried until the attempts are exhausted.
C20_RestoreParentFirst ==
  [][(run.op = "restore" /\ pc = "restore") =>
       LET b == dfsm.backup
           done == run.completed
       IN /\ ~run.direct =>
               \A k \in DOMAIN done :
                 store.backups[done[k]].depends_on =
                   IF k = 1 THEN NoID ELSE done[k - 1]
          /\ Restored = Range(done) \cup
                          (IF dfsm.state = "restored" THEN {b.id} ELSE {})
          /\ (dfsm.state = "parent_snapshot_exists" /\ b.depends_on # NoID) =>
               /\ <<Dst, b.depends_on>> \in snaps
               /\ ~run.direct =>
                    done # <<>> /\ done[Len(done)] = b.depends_on
          /\ (dfsm.state = "parent_snapshot_exists" /\ b.depends_on = NoID
                /\ ~run.direct) => done = <<>>
          /\ (pc' = "done" /\ ~result'.ok) =>
               \A i \in Range(dq) \cup {b.id} : <<Dst, i>> \notin snaps' \ run.snaps0
          /\ (pc' = "done" /\ result'.ok) =>
               run'.completed[Len(run'.completed)] = run.id
          /\ (dfsm.state = "initial" /\ b.depends_on # NoID
                /\ <<Dst, b.depends_on>> \notin snaps) =>
               /\ snaps' = snaps
               /\ \/ /\ pc' = "done" /\ ~result'.ok
                     /\ result'.err \in {"ParentSnapshotMissing", "RetryAttemptsExhausted"}
                     /\ result'.err = "RetryAttemptsExhausted" =>
                          dfsm.retry = RestoreMaxRetries
                  \/ /\ pc' = "restore"
                     /\ dfsm' = [dfsm EXCEPT !.retry = @ + 1]]_vars

\* RestoreRecursive has returned nil after restoring a Full, the Diff on it
\* and the Incr on that, in this order.
C20_Witness ==
  /\ pc = "done" /\ run.op = "restore" /\ ~run.direct /\ result.ok
  /\ Len(run.completed) = 3
  /\ store.backups[run.completed[1]].kind = "full"
  /\ store.backups[run.completed[2]].kind = "diff"
  /\ store.backups[run.completed[3]].kind = "incr"
  /\ \A k \in 1..3 : <<Dst, run.completed[k]>> \in snaps

\* A restore of a backup with a parent has failed with the Unrecoverable
\* error of check_parent_snapshot at the first attempt, nothing restored.
C20_ParentMissingReached ==
  /\ pc = "done" /\ run.op = "restore" /\ ~result.ok
  /\ result.err = "ParentSnapshotMissing"
  /\ dfsm.state = "initial" /\ dfsm.retry = 0
  /\ dfsm.backup.depends_on # NoID
  /\ snaps = run.snaps0

\* RestoreRecursive has failed on the root Full with every attempt used up,
\* and the Diff that was waiting on it is not on the destination.
C20_AncestorFailedReached ==
  /\ pc = "done" /\ run.op = "restore" /\ ~run.direct /\ ~result.ok
  /\ result.err = "RetryAttemptsExhausted"
  /\ dfsm.backup.depends_on = NoID
  /\ dq # <<>> /\ \A i \in Range(dq) : <<Dst, i>> \notin snaps

\* C21: FSM.Run changes the current state only at the end of an execution of
\* the transition function that returned nil, from the transition's From to
\* its To; a Run whose transition's From is not the current state returns an
\* error without entering the loop (no execution); a Run that returns an
\* error leaves the current state as it was; and RunSequence returns that
\* error with the failing action and the later ones still to run, none of
\* which is executed afterwards.
C21_RunAdvancesOnSuccessOnly ==
  [][run.op = "fsm" =>
       /\ dfsm' # dfsm =>
            /\ pc = "attempt" /\ pc' \in {"run", "done"}
            /\ dfsm.state = Transitions[Head(run.seq)].from
            /\ dfsm'.state = Transitions[Head(run.seq)].to
            /\ pc' = "done" => result'.ok
       /\ (pc = "run" /\ Head(run.seq) \in DOMAIN Transitions
             /\ Transitions[Head(run.seq)].from # dfsm.state) =>
            /\ pc' # "top"
            /\ pc' = "done" =>
                 ~result'.ok /\ result'.err = "InvalidTransition" /\ run'.attempts = 0
       /\ (pc # "done" /\ pc' = "done" /\ ~result'.ok) =>
            dfsm' = dfsm /\ run'.seq = run.seq
       /\ pc = "done" => pc' \in {"done", "run", "exited"}]_vars

\* RunSequence of two actions has returned the error of the first, whose
\* From is not the state an earlier call had advanced the FSM to; the
\* transition function was not executed and the second action was not run.
C21_Witness ==
  /\ run.op = "fsm" /\ pc = "done" /\ ~result.ok
  /\ result.err = "InvalidTransition"
  /\ Len(run.seq) = 2 /\ run.attempts = 0
  /\ dfsm.state = "parent_snapshot_exists"

\* C22: when the transition function returns an error made by
\* NewUnrecoverableError (ctx live), RetryAfter returns that error with wait
\* 0 and leaves its attempt counter alone, and Run returns the error at once:
\* no sleep, no further execution, the current state as it was.  An
\* unrecoverable error at the first execution ends Run after exactly one.
C22_UnrecoverableShortCircuits ==
  [][(run.op = "fsm" /\ pc = "failed" /\ run.err = "unrecoverable"
        /\ run.ctx = "live" /\ pc' # pc) =>
       /\ pc' = "done" /\ ~result'.ok /\ result'.err = "Unrecoverable"
       /\ run'.wait = 0 /\ run'.waits = run.waits
       /\ run'.currentRetry = run.currentRetry
       /\ run'.attempts = run.attempts /\ run.attempts = run.currentRetry + 1
       /\ dfsm' = dfsm]_vars

\* Run has returned the unrecoverable error of the first execution of the
\* transition function although the policy would have granted two retries.
C22_Witness ==
  /\ run.op = "fsm" /\ pc = "done" /\ ~result.ok
  /\ result.err = "Unrecoverable"
  /\ run.cfg.maxRetries = 2 /\ run.currentRetry = 0 /\ run.attempts = 1
  /\ run.waits = <<>>
  /\ dfsm.state = "initial"

\* The smaller of two durations.
Min(a, b) == IF a < b THEN a ELSE b

\* C23: the waits one policy instance grants in a Run: 0 before the first
\* retry and min(wait_increment * 2^(N-1), max_wait) before the N-th.
C23_ExponentialWaits ==
  run.op = "fsm" =>
    \A N \in DOMAIN run.waits :
      run.waits[N] = IF N = 1 THEN 0
                     ELSE Min(run.cfg.inc * 2 ^ (N - 1), run.cfg.maxWait)

\* C24: the k-th call of RetryAfter on one policy instance (k = 0, 1, ...)
\* with a recoverable error returns the wait min(k * WaitIncrements, MaxWait).
C24_LinearWaits ==
  run.op = "fsm" =>
    \A N \in DOMAIN run.waits :
      run.waits[N] = Min((N - 1) * run.cfg.inc, run.cfg.maxWait)

\* C25: one policy instance grants at most MaxRetries waits, so that Run
\* executes the transition function at most MaxRetries + 1 times; a
\* recoverable failure (ctx live) is granted a retry while fewer than
\* MaxRetries were granted, and after that RetryAfter returns
\* RetryAttemptsExhausted with wait 0 (at the first failure when MaxRetries
\* is 0) and Run returns it after exactly MaxRetries + 1 executions, the
\* current state as it was.  And Run, once in its loop, returns (or the
\* process exits).
C25_RetryBounded ==
  /\ (pc \in {"top", "attempt", "failed", "sleep"}) ~> (pc \in {"done", "run", "exited"})
  /\ [][run.op = "fsm" =>
            /\ run.currentRetry <= run.cfg.maxRetries
            /\ Len(run.waits) = run.currentRetry
            /\ run.attempts <= run.cfg.maxRetries + 1
            /\ (pc = "failed" /\ run.err = "recoverable" /\ run.ctx = "live"
                  /\ pc' # pc) =>
                 IF run.currentRetry < run.cfg.maxRetries
                 THEN /\ pc' = "sleep"
                      /\ run'.currentRetry = run.currentRetry + 1
                      /\ Len(run'.waits) = Len(run.waits) + 1
                      /\ run'.attempts = run.attempts
                 ELSE /\ pc' = "done" /\ ~result'.ok
                      /\ result'.err = "RetryAttemptsExhausted"
                      /\ run'.wait = 0 /\ run'.waits = run.waits
                      /\ Len(run.waits) = run.cfg.maxRetries
                      /\ run'.attempts = run.cfg.maxRetries + 1
                      /\ dfsm' = dfsm]_vars

\* Run has returned RetryAttemptsExhausted after three executions of a
\* transition function that failed each time, under MaxRetries = 2.
C25_Witness ==
  /\ run.op = "fsm" /\ pc = "done" /\ ~result.ok
  /\ result.err = "RetryAttemptsExhausted"
  /\ run.cfg.maxRetries = 2 /\ run.attempts = 3 /\ Len(run.waits) = 2
  /\ dfsm.state = "initial"

\* Run has returned RetryAttemptsExhausted at the first failure: MaxRetries = 0.
C25_ZeroMaxRetriesReached ==
  /\ run.op = "fsm" /\ pc = "done" /\ ~result.ok
  /\ result.err = "RetryAttemptsExhausted"
  /\ run.cfg.maxRetries = 0 /\ run.attempts = 1 /\ run.waits = <<>>

\* Once ctx is cancelled Run starts no execution of the transition function,
\* and its next select returns ctx.Err() with the current state, the retry
\* runner's counter and the waits granted as they were.
CancelledRunReturns ==
  /\ pc' = "attempt" => pc = "attempt"
  /\ (pc \in {"top", "failed"} /\ pc' # pc) =>
       /\ pc' \in {"done", "exited"}
       /\ pc' = "done" => ~result'.ok /\ result'.err = "Cancelled"
       /\ dfsm' = dfsm
       /\ run'.currentRetry = run.currentRetry /\ run'.waits = run.waits

\* C26: cancellation is checked before each attempt and before each backoff
\* sleep, and the sleeps are cancellable: once ctx is cancelled, Run starts
\* no further attempt, returns the cancellation error without advancing and
\* without consulting the retry policy, and a backoff sleep that is under
\* way does not go on.
C26_CancellationEndsRun ==
  [][(run.op = "fsm" /\ run.ctx = "cancelled") =>
       /\ CancelledRunReturns
       /\ pc = "sleep" => run'.left = run.left]_vars

\* The part of C26 about the two selects alone, the sleep left aside.
C26_ChecksBeforeAttemptAndRetry ==
  [][(run.op = "fsm" /\ run.ctx = "cancelled") => CancelledRunReturns]_vars

\* Run has returned ctx.Err() at the select after a failed execution, with
\* a retry still to be granted and the policy not consulted.
C26_CancelledAfterFailureReached ==
  /\ run.op = "fsm" /\ pc = "done" /\ ~result.ok /\ result.err = "Cancelled"
  /\ run.err = "recoverable" /\ run.attempts = 1 /\ run.currentRetry = 0
  /\ run.cfg.maxRetries > 0

\* C27: soft-then-hard exit: after the first termination signal (softExit
\* set) the transition under way may finish, retries included, but Run
\* starts no further transition of the sequence; after the second signal
\* (cancel() called, os.Exit(1) next) no execution of a transition function
\* starts any more.
C27_SoftThenHardExit ==
  [][run.op = "fsm" =>
       /\ run.softExit => ~(pc = "run" /\ pc' = "top")
       /\ run.handler = "exiting" => (pc' = "attempt" => pc = "attempt")]_vars

\* The part of C27 about the second signal alone.
C27_HardExitStartsNothing ==
  [][(run.op = "fsm" /\ run.handler = "exiting") =>
       (pc' = "attempt" => pc = "attempt")]_vars

\* After the first signal, during the first transition of a sequence of
\* two, the second transition has run to its end.
C27_SequenceWentOnReached ==
  /\ run.op = "fsm" /\ run.softExit /\ run.handler = "waiting"
  /\ pc = "done" /\ result.ok /\ dfsm.state = "restored"

\* ---------------------------------------------------------------------
\* glock: the global process lock, <tmp>/zfsbackrest.lock, taken by
\* NewCommandGuard and released by CommandGuard.OnExit.  run holds the file
\* system's and the kernel's view (path: the inode the lock path names, 0
\* when the path does not exist; created: inodes created so far; flock: the
\* process whose open file holds the exclusive flock of an inode, 0 when
\* none) and each process's position in AcquireAtPath and Release with its
\* open file's inode (fd) and the error of its last AcquireAtPath (err).
MaxProcesses == 2
MaxInodes == 3

Processes == 1..MaxProcesses
Inodes == 1..MaxInodes

InitLock ==
  /\ store = NewStore(<<"d1">>) /\ manifest = store
  /\ remote = [k \in Datasets \X IDs |-> "absent"]
  /\ snaps = {}
  /\ pc = "lock"
  /\ run = [op |-> "lock", path |-> 0, created |-> 0,
            flock |-> [i \in Inodes |-> 0],
            procs |-> [p \in Processes |-> [at |-> "idle", fd |-> 0, err |-> FALSE]]]
  /\ fsms = <<>>
  /\ bi = 0
  /\ dfsm = NoDfsm
  /\ dq = <<>>
  /\ result = NoResult
  /\ pre = manifest
  /\ intr = NoIntr
  /\ nextId = 1
  /\ clock = 1
  /\ budget = [left |-> MaxUpsets, flags |-> {}]

\* What no step of glock touches.
LockRest ==
  <<store, manifest, remote, snaps, pc, fsms, bi, dfsm, dq, result, pre, intr,
    nextId, clock, budget>>

\* The processes for which AcquireAtPath has returned a GlobalLock and
\* Release has not been called yet.
Holders == {p \in Processes : run.procs[p].at = "held"}

\* AcquireAtPath, os.OpenFile(lockPath, O_CREATE|O_RDWR): opens the file the
\* path names, creating a new one when the path does not exist.
OpenFile(p) ==
  /\ run.op = "lock" /\ run.procs[p].at = "idle"
  /\ IF run.path # 0
       THEN run' = [run EXCEPT !.procs[p] = [at |-> "opened", fd |-> run.path, err |-> FALSE]]
       ELSE /\ run.created < MaxInodes
            /\ run' = [run EXCEPT !.created = @ + 1, !.path = run.created + 1,
                                  !.procs[p] = [at |-> "opened", fd |-> run.created + 1,
                                                err |-> FALSE]]
  /\ UNCHANGED LockRest

\* AcquireAtPath, unix.Flock(fd, LOCK_EX|LOCK_NB): takes the flock of the
\* opened inode when no open file holds it, and the GlobalLock is returned;
\* otherwise closes the file and returns "another instance appears to be
\* running".
Flock(p) ==
  /\ run.op = "lock" /\ run.procs[p].at = "opened"
  /\ IF run.flock[run.procs[p].fd] = 0
       THEN run' = [run EXCEPT !.flock[run.procs[p].fd] = p, !.procs[p].at = "held"]
       ELSE run' = [run EXCEPT !.procs[p] = [at |-> "idle", fd |-> 0, err |-> TRUE]]
  /\ UNCHANGED LockRest

\* Release, unix.Flock(fd, LOCK_UN)
Unlock(p) ==
  /\ run.op = "lock" /\ run.procs[p].at = "held"
  /\ run' = [run EXCEPT !.flock[run.procs[p].fd] = 0, !.procs[p].at = "unlocked"]
  /\ UNCHANGED LockRest

\* Release, l.file.Close()
Close(p) ==
  /\ run.op = "lock" /\ run.procs[p].at = "unlocked"
  /\ run' = [run EXCEPT !.procs[p].at = "closed", !.procs[p].fd = 0]
  /\ UNCHANGED LockRest

\* Release, os.Remove(l.path): unlinks whatever file the path names now;
\* the error of a missing path is dropped.
Remove(p) ==
  /\ run.op = "lock" /\ run.procs[p].at = "closed"
  /\ run' = [run EXCEPT !.path = 0, !.procs[p].at = "idle"]
  /\ UNCHANGED LockRest

NextLock ==
  \/ \E p \in Processes : OpenFile(p)
  \/ \E p \in Processes : Flock(p)
  \/ \E p \in Processes : Unlock(p)
  \/ \E p \in Processes : Close(p)
  \/ \E p \in Processes : Remove(p)

SpecLock == InitLock /\ [][NextLock]_vars

\* C28: mutual exclusion of the global process lock: in every interleaving
\* of the steps of AcquireAtPath and Release at most one process holds the
\* lock, and the flock step of an AcquireAtPath taken while another process
\* holds the lock fails at once (the process is back where it started, with
\* the error).
C28_LockMutualExclusion ==
  [][run.op = "lock" =>
       /\ Cardinality(Holders') <= 1
       /\ \A p \in Processes :
            (run.procs[p].at = "opened" /\ run'.procs[p] # run.procs[p]
               /\ Holders \ {p} # {})
              => (run'.procs[p].at = "idle" /\ run'.procs[p].err)]_vars

\* The lock does its work while the lock file stays in place: an
\* AcquireAtPath has failed on the flock another process holds.
C28_ContentionFailedReached ==
  /\ run.op = "lock"
  /\ \E p, q \in Processes :
       /\ p # q /\ run.procs[p].at = "idle" /\ run.procs[p].err
       /\ run.procs[q].at = "held" /\ run.flock[run.path] = q

\* The Store.Save call of the transition that runs next, if it is one of
\* add_orphan, update_store (backup), orphan, update_store (delete) and gets
\* as far as its Save: called, and the store Save is called on.
SaveCall ==
  IF pc = "backup1" /\ fsms[bi].state = "created_backup_manifest"
  THEN LET a == AddOrphan(store, fsms[bi].manifest, OrphanReasonUncommitted)
       IN [called |-> a.ok, store |-> a.store]
  ELSE IF pc = "backup2" /\ fsms[bi].state = "uploaded_snapshot"
  THEN LET r == RemoveOrphan(store, fsms[bi].manifest)
           a == AddBackup(r.store, [fsms[bi].manifest EXCEPT !.size = fsms[bi].size])
       IN [called |-> r.ok /\ a.ok, store |-> a.store]
  ELSE IF pc = "delete" /\ dfsm.state = "prerequisites_verified"
          /\ ~run.opts.dryRun /\ ~run.opts.skipOrphan
  THEN LET r == RemoveBackup(store, dfsm.backup.id)
           a == AddOrphan(r.store, dfsm.backup, OrphanReasonStartedDeletion)
       IN [called |-> r.ok /\ a.ok, store |-> a.store]
  ELSE IF pc = "delete" /\ dfsm.state = "remote_removed"
  THEN LET r == RemoveOrphan(store, dfsm.backup)
       IN [called |-> r.ok, store |-> r.store]
  ELSE [called |-> FALSE, store |-> store]

C29_InvalidSaveRetriedReached ==
  /\ pc = "done" /\ ~result.ok /\ result.op = "delete"
  /\ result.err = "RemoveBackupFailed"
  /\ dfsm.state = "prerequisites_verified" /\ dfsm.retry = 1
  /\ StoreValidate(store, clock) # "ok"

\* ---------------------------------------------------------------------
\* Store.AddBackup and Store.AddOrphan called on a store, one call after the
\* other, with any payload: run holds the last call (fn, backup, reason),
\* pre the store it was made on, result what it returned, run.calls the number
\* of calls made.
MaxCalls == 3

Payloads ==
  [id : IDs, kind : {BackupTypeFull, BackupTypeDiff}, created_at : {1},
   depends_on : {NoID}, dataset : {"d1"}, size : {0}]

OrphanReasons == {OrphanReasonUncommitted, OrphanReasonStartedDeletion}

InitAdd ==
  /\ store = NewStore(<<"d1">>) /\ manifest = store
  /\ remote = [k \in Datasets \X IDs |-> "absent"]
  /\ snaps = {}
  /\ pc = "ready"
  /\ run = [op |-> "add", fn |-> "none", calls |-> 0]
  /\ fsms = <<>>
  /\ bi = 0
  /\ dfsm = NoDfsm
  /\ dq = <<>>
  /\ result = NoResult
  /\ pre = store
  /\ intr = NoIntr
  /\ nextId = 1
  /\ clock = 1
  /\ budget = [left |-> MaxUpsets, flags |-> {}]

AddRest ==
  <<manifest, remote, snaps, fsms, bi, dfsm, dq, intr, nextId, clock, budget>>

\* s.AddBackup(ctx, b)
AddBackupCall(b) ==
  /\ run.op = "add" /\ pc \in {"ready", "done"} /\ run.calls < MaxCalls
  /\ LET a == AddBackup(store, b) IN
       /\ store' = a.store
       /\ result' = [ok |-> a.ok, err |-> IF a.ok THEN "none" ELSE "AlreadyExists",
                     op |-> "add"]
  /\ pre' = store
  /\ run' = [op |-> "add", fn |-> "AddBackup", backup |-> b, reason |-> "none",
             calls |-> run.calls + 1]
  /\ pc' = "done"
  /\ UNCHANGED AddRest

\* s.AddOrphan(ctx, b, reason)
AddOrphanCall(b, reason) ==
  /\ run.op = "add" /\ pc \in {"ready", "done"} /\ run.calls < MaxCalls
  /\ LET a == AddOrphan(store, b, reason) IN
       /\ store' = a.store
       /\ result' = [ok |-> a.ok, err |-> IF a.ok THEN "none" ELSE "AlreadyOrphan",
                     op |-> "add"]
  /\ pre' = store
  /\ run' = [op |-> "add", fn |-> "AddOrphan", backup |-> b, reason |-> reason,
             calls |-> run.calls + 1]
  /\ pc' = "done"
  /\ UNCHANGED AddRest

NextAdd ==
  \/ \E b \in Payloads : AddBackupCall(b)
  \/ \E b \in Payloads, reason \in OrphanReasons : AddOrphanCall(b, reason)

SpecAdd == InitAdd /\ [][NextAdd]_vars

\* The last call found its key in the map it adds to.
AddFoundKey ==
  IF run.fn = "AddBackup" THEN run.backup.id \in DOMAIN pre.backups
  ELSE run.backup.id \in DOMAIN pre.orphans

\* The entry the last call found is equal to the one it was to add.
AddFoundEqual ==
  IF run.fn = "AddBackup" THEN pre.backups[run.backup.id] = run.backup
  ELSE pre.orphans[run.backup.id] = [backup |-> run.backup, reason |-> run.reason]

\* C30: AddBackup and AddOrphan are idempotent on equal payloads and reject
\* conflicting ones: a call whose key exists leaves the store as it was, and
\* returns success when the existing entry equals the payload (and, for an
\* orphan, the reason), an error when it differs.
C30_AddIdempotent ==
  (run.op = "add" /\ pc = "done" /\ AddFoundKey) =>
    (store = pre /\ (result.ok <=> AddFoundEqual))

\* An orphan added a second time with the same payload and reason: success,
\* the store as after the first add.
C30_Witness ==
  /\ run.op = "add" /\ pc = "done" /\ run.fn = "AddOrphan"
  /\ AddFoundKey /\ AddFoundEqual /\ result.ok /\ store = pre

\* The same backup added as an orphan under another reason, and a backup
\* added with another payload under an existing ID: both are errors.
C30_ConflictReached ==
  /\ run.op = "add" /\ pc = "done" /\ AddFoundKey /\ ~result.ok /\ store = pre
  /\ \/ /\ run.fn = "AddOrphan"
        /\ pre.orphans[run.backup.id].backup = run.backup
        /\ pre.orphans[run.backup.id].reason # run.reason
     \/ /\ run.fn = "AddBackup"
        /\ pre.backups[run.backup.id] # run.backup

\* ---------------------------------------------------------------------
\* Store.Validate and Backups.Validate called on a store as LoadStore can
\* decode one from a manifest object, well-formed or not: any version and
\* created_at, any type (a string) and depends_on per backup, self-reference
\* and cycles included, one backup at most with an ID other than its key or
\* a created_at in the future, one ID at most in orphans.  result holds what
\* Store.Validate returned and, in each, what Backups.Validate returned for
\* every ID, with the IDs it visited in visits.
BackupTypeOther == "other"
AnyTypes == BackupTypes \cup {BackupTypeOther}

AnyBackup(i, kind, dep, flaw) ==
  [id |-> IF flaw = "id" THEN (i % MaxId) + 1 ELSE i, kind |-> kind,
   created_at |-> IF flaw = "future" THEN 2 ELSE 1, depends_on |-> dep,
   dataset |-> "d1", size |-> 0]

MalformedBackups(ids) ==
  UNION {
    {[i \in S |-> AnyBackup(i, k[i], d[i], IF i = fk THEN fl ELSE "none")] :
       k \in [S -> AnyTypes], d \in [S -> {NoID} \cup IDs],
       fk \in {NoID} \cup S, fl \in {"id", "future"}} :
    S \in SUBSET ids}

AnyOrphans ==
  {EmptyMap} \cup
  {[i \in {o} |-> [backup |-> AnyBackup(o, BackupTypeFull, NoID, "none"),
                    reason |-> OrphanReasonUncommitted]] : o \in IDs}

InitValidate ==
  /\ \E bs \in MalformedBackups(IDs), os \in AnyOrphans,
        top \in {"none", "version", "future"} :
       store = [version |-> IF top = "version" THEN 2 ELSE 1,
                created_at |-> IF top = "future" THEN 2 ELSE 0,
                backups |-> bs, orphans |-> os, managed |-> <<"d1">>]
  /\ manifest = store
  /\ remote = [k \in Datasets \X IDs |-> "absent"]
  /\ snaps = {}
  /\ pc = "ready"
  /\ run = [op |-> "validate"]
  /\ fsms = <<>>
  /\ bi = 0
  /\ dfsm = NoDfsm
  /\ dq = <<>>
  /\ result = NoResult
  /\ pre = manifest
  /\ intr = NoIntr
  /\ nextId = 1
  /\ clock = 1
  /\ budget = [left |-> MaxUpsets, flags |-> {}]

\* Backups.Validate whose Diff and Incr cases recurse without looking at
\* the parent's type: the IDs its first calls look up.
RECURSIVE VisitsAnyParent(_, _, _, _)
VisitsAnyParent(bs, id, now, calls) ==
  IF calls = 0 THEN <<>>
  ELSE IF id \notin DOMAIN bs THEN <<id>>
  ELSE LET b == bs[id] IN
    IF /\ b.id = id /\ b.created_at <= now
       /\ b.kind \in {BackupTypeDiff, BackupTypeIncr}
       /\ b.depends_on # NoID /\ b.depends_on \in DOMAIN bs
    THEN <<id>> \o VisitsAnyParent(bs, b.depends_on, now, calls - 1)
    ELSE <<id>>

ValidateVisitsAnyParent(bs, id, now) ==
  VisitsAnyParent(bs, id, now, Cardinality(IDs) + 2)

\* The IDs the calls of Backups.Validate(id) look up in bs, in order, the
\* recursive calls included.
RECURSIVE ValidateVisits(_, _, _)
ValidateVisits(bs, id, now) ==
  IF id \notin DOMAIN bs THEN <<id>>
  ELSE LET b == bs[id] IN
    IF /\ b.id = id /\ b.created_at <= now
       /\ b.depends_on # NoID /\ b.depends_on \in DOMAIN bs
       /\ \/ b.kind = BackupTypeDiff /\ bs[b.depends_on].kind = BackupTypeFull
          \/ b.kind = BackupTypeIncr /\ bs[b.depends_on].kind = BackupTypeDiff
    THEN <<id>> \o ValidateVisits(bs, b.depends_on, now)
    ELSE <<id>>

\* s.Validate(), and s.Backups.Validate(id) for every ID
ValidateCall ==
  /\ pc = "ready" /\ run.op = "validate"
  /\ LET v == StoreValidate(store, clock) IN
     result' = [ok |-> v = "ok", err |-> v, op |-> "validate",
                each |-> [i \in IDs |-> BackupsValidate(store.backups, i, clock)],
                visits |-> [i \in IDs |-> ValidateVisits(store.backups, i, clock)]]
  /\ pc' = "done"
  /\ UNCHANGED <<store, manifest, remote, snaps, run, fsms, bi, dfsm, dq, pre,
                 intr, nextId, clock, budget>>

NextValidate == ValidateCall

SpecValidate == InitValidate /\ [][NextValidate]_vars

\* The invariants of the data model on a store s at time now.
DataModelInvariants(s, now) ==
  /\ s.version = 1
  /\ s.created_at <= now
  /\ (DOMAIN s.backups) \cap (DOMAIN s.orphans) = {}
  /\ \A k \in DOMAIN s.backups :
       LET b == s.backups[k] IN
       /\ b.id = k
       /\ b.created_at <= now
       /\ b.kind \in BackupTypes
       /\ b.kind = BackupTypeFull => b.depends_on = NoID
       /\ b.kind = BackupTypeDiff =>
            b.depends_on \in DOMAIN s.backups
              /\ s.backups[b.depends_on].kind = BackupTypeFull
       /\ b.kind = BackupTypeIncr =>
            b.depends_on \in DOMAIN s.backups
              /\ s.backups[b.depends_on].kind = BackupTypeDiff

\* What Backups.Validate(i) is to return on bs, given what it returns for
\* the other IDs (each).
ValidateExpected(bs, i, now, each) ==
  IF i \notin DOMAIN bs THEN "ErrParentBackupNotFound"
  ELSE IF bs[i].id # i THEN "ErrBackupIDMismatch"
  ELSE IF bs[i].created_at > now THEN "ErrBackupCreatedInFuture"
  ELSE IF bs[i].kind \notin BackupTypes THEN "ErrUnknownBackupType"
  ELSE IF bs[i].kind = BackupTypeFull
  THEN (IF bs[i].depends_on # NoID THEN "ErrFullBackupHasParent" ELSE "ok")
  ELSE IF bs[i].depends_on = NoID
  THEN (IF bs[i].kind = BackupTypeDiff THEN "ErrDiffBackupNoParent"
        ELSE "ErrIncrBackupNoParent")
  ELSE IF bs[i].depends_on \notin DOMAIN bs THEN "ErrParentBackupNotFound"
  ELSE IF bs[i].kind = BackupTypeDiff /\ bs[bs[i].depends_on].kind # BackupTypeFull
  THEN "ErrDiffBackupParentNotFull"
  ELSE IF bs[i].kind = BackupTypeIncr /\ bs[bs[i].depends_on].kind # BackupTypeDiff
  THEN "ErrIncrBackupParentNotDiff"
  ELSE each[bs[i].depends_on]

\* C31: Store.Validate and Backups.Validate accept exactly the stores that
\* satisfy the data-model invariants and report the specific violation
\* otherwise: InvalidVersion, then CreatedInFuture, then BackupInOrphan, then
\* BackupValidation when Backups.Validate rejects a backup; and
\* Backups.Validate reports the violation of the backup itself or, when it
\* has none, what it reports for the parent.
C31_ValidateExact ==
  (run.op = "validate" /\ pc = "done") =>
    /\ result.ok <=> DataModelInvariants(store, clock)
    /\ store.version # 1 => result.err = "ErrInvalidStoreVersion"
    /\ (store.version = 1 /\ store.created_at > clock) =>
         result.err = "ErrStoreCreatedInFuture"
    /\ (store.version = 1 /\ store.created_at <= clock
          /\ (DOMAIN store.backups) \cap (DOMAIN store.orphans) # {}) =>
         result.err = "ErrBackupInOrphan"
    /\ (store.version = 1 /\ store.created_at <= clock
          /\ (DOMAIN store.backups) \cap (DOMAIN store.orphans) = {}) =>
         (result.err = IF \E i \in DOMAIN store.backups : result.each[i] # "ok"
                       THEN "ErrBackupValidation" ELSE "ok")
    /\ \A i \in IDs :
         result.each[i] = ValidateExpected(store.backups, i, clock, result.each)

\* Validate has rejected a store whose only flaw is two levels up a chain:
\* an Incr on a Diff whose Full is missing.
C31_Witness ==
  /\ run.op = "validate" /\ pc = "done" /\ ~result.ok
  /\ result.err = "ErrBackupValidation"
  /\ \E i \in DOMAIN store.backups :
       /\ store.backups[i].kind = BackupTypeIncr
       /\ BackupsValidateShallow(store.backups, i, clock) = "ok"
       /\ result.each[i] = "ErrParentBackupNotFound"
       /\ \A j \in DOMAIN store.backups :
            j # store.backups[i].depends_on =>
              BackupsValidateShallow(store.backups, j, clock) = "ok"

\* Validate has accepted a store with a complete chain Incr, Diff, Full.
C31_ValidChainAccepted ==
  /\ run.op = "validate" /\ pc = "done" /\ result.ok
  /\ \E i \in DOMAIN store.backups : store.backups[i].kind = BackupTypeIncr

\* ---------------------------------------------------------------------
\* Backups.GetParent and LatestFull / LatestDiff / LatestIncr called on the
\* backups of a store with backups of any type, dataset and age, and with
\* an orphan younger than all of them.  result holds the call (op, dataset,
\* kind) and what it returned (id: the backup's ID, NoID for nil).
DatedBackups(ids) ==
  UNION {
    {[i \in S |-> [id |-> i, kind |-> k[i], created_at |-> c[i],
                   depends_on |-> NoID, dataset |-> d[i], size |-> 0]] :
       k \in [S -> BackupTypes], c \in [S -> {1, 2}], d \in [S -> Datasets]} :
    S \in SUBSET ids}

YoungOrphans ==
  {EmptyMap} \cup
  {[i \in {o} |-> [backup |-> [id |-> o, kind |-> k, created_at |-> 3,
                                depends_on |-> NoID, dataset |-> "d1", size |-> 0],
                    reason |-> OrphanReasonUncommitted]] :
     o \in IDs, k \in {BackupTypeFull, BackupTypeDiff}}

InitParent ==
  /\ \E bs \in DatedBackups(IDs), os \in YoungOrphans :
       store = [NewStore(<<"d1", "d2">>) EXCEPT !.backups = bs, !.orphans = os]
  /\ manifest = store
  /\ remote = [k \in Datasets \X IDs |-> "absent"]
  /\ snaps = {}
  /\ pc = "ready"
  /\ run = [op |-> "parent"]
  /\ fsms = <<>>
  /\ bi = 0
  /\ dfsm = NoDfsm
  /\ dq = <<>>
  /\ result = NoResult
  /\ pre = manifest
  /\ intr = NoIntr
  /\ nextId = 1
  /\ clock = 3
  /\ budget = [left |-> MaxUpsets, flags |-> {}]

ParentRest ==
  <<store, manifest, remote, snaps, run, fsms, bi, dfsm, dq, pre, intr, nextId,
    clock, budget>>

\* s.Backups.GetParent(dataset, kind)
GetParentCall(dataset, kind) ==
  /\ pc = "ready" /\ run.op = "parent"
  /\ LET ps == GetParent(store.backups, dataset, kind) IN
     IF ps = {}
     THEN result' = [ok |-> FALSE, err |-> "ErrParentBackupNotFound", op |-> "GetParent",
                     dataset |-> dataset, kind |-> kind, id |-> NoID]
     ELSE \E p \in ps :
            result' = [ok |-> TRUE, err |-> "none", op |-> "GetParent",
                       dataset |-> dataset, kind |-> kind, id |-> p]
  /\ pc' = "done"
  /\ UNCHANGED ParentRest

\* s.Backups.LatestFull(dataset), LatestDiff(dataset), LatestIncr(dataset)
LatestCall(dataset, kind) ==
  /\ pc = "ready" /\ run.op = "parent"
  /\ LET ps == LatestOfKind(store.backups, dataset, kind) IN
     \E p \in (IF ps = {} THEN {NoID} ELSE ps) :
       result' = [ok |-> TRUE, err |-> "none", op |-> "Latest",
                  dataset |-> dataset, kind |-> kind, id |-> p]
  /\ pc' = "done"
  /\ UNCHANGED ParentRest

NextParent ==
  \/ \E dataset \in Datasets, kind \in BackupTypes : GetParentCall(dataset, kind)
  \/ \E dataset \in Datasets, kind \in BackupTypes : LatestCall(dataset, kind)

SpecParent == InitParent /\ [][NextParent]_vars

\* The backups of store.backups of that type and dataset.
OfKind(dataset, kind) ==
  {i \in DOMAIN store.backups :
     store.backups[i].kind = kind /\ store.backups[i].dataset = dataset}

\* id is one of cand and none of cand is created after it.
IsLatestOf(id, cand) ==
  /\ id \in cand
  /\ \A j \in cand : store.backups[j].created_at <= store.backups[id].created_at

\* C32: GetParent(dataset, kind) returns none for Full, the Full of the
\* dataset with the maximum created_at for Diff and the Diff of the dataset
\* with the maximum created_at for Incr, among store.backups only; it fails
\* with ParentNotFound when there is no such backup; LatestFull, LatestDiff
\* and LatestIncr return none exactly when store.backups has no backup of
\* that type and dataset, and the latest one otherwise.
C32_GetParentLatest ==
  (run.op = "parent" /\ pc = "done") =>
    LET wanted == IF result.kind = BackupTypeDiff THEN BackupTypeFull ELSE BackupTypeDiff
        cand == OfKind(result.dataset, wanted)
        same == OfKind(result.dataset, result.kind)
    IN /\ (result.op = "GetParent" /\ result.kind = BackupTypeFull) =>
            (result.ok /\ result.id = NoID)
       /\ (result.op = "GetParent" /\ result.kind # BackupTypeFull) =>
            IF cand = {}
            THEN ~result.ok /\ result.err = "ErrParentBackupNotFound"
            ELSE result.ok /\ IsLatestOf(result.id, cand)
       /\ result.op = "Latest" =>
            IF same = {} THEN result.id = NoID ELSE IsLatestOf(result.id, same)

\* GetParent for a Diff of d1 has failed with ParentNotFound on a store
\* whose only Full of d1 is an orphan and which has a Full of d2.
C32_Witness ==
  /\ run.op = "parent" /\ pc = "done" /\ result.op = "GetParent"
  /\ result.kind = BackupTypeDiff /\ result.dataset = "d1"
  /\ ~result.ok /\ result.err = "ErrParentBackupNotFound"
  /\ \E o \in DOMAIN store.orphans : store.orphans[o].backup.kind = BackupTypeFull
  /\ OfKind("d2", BackupTypeFull) # {}

\* GetParent for an Incr has returned the younger of two Diffs of the
\* dataset.
C32_YoungerDiffReached ==
  /\ run.op = "parent" /\ pc = "done" /\ result.op = "GetParent"
  /\ result.kind = BackupTypeIncr /\ result.ok
  /\ \E j \in OfKind(result.dataset, BackupTypeDiff) :
       store.backups[j].created_at < store.backups[result.id].created_at

\* The place of a state of the delete FSM in the sequence of a Delete
\* without skip flags.
DeleteOrd(state) ==
  CASE state = "initial" -> 0
    [] state = "prerequisites_verified" -> 1
    [] state = "orphaned" -> 2
    [] state = "remote_removed" -> 3
    [] state = "updated_store" -> 4
    [] state = "released_snapshot" -> 5
    [] state = "local_removed" -> 6
    [] state = "completed" -> 7
    [] OTHER -> 8

\* Delete(dataset, id, opts) of a backup is under way with no skip flag and
\* dry_run = false.
InPlainDelete ==
  /\ pc = "delete" /\ ~dfsm.orphan
  /\ run.opts \in NoSkipOpts /\ ~run.opts.dryRun

\* id is a key of neither map of the store s.
Unlisted(s, id) == id \notin (DOMAIN s.backups) \cup (DOMAIN s.orphans)

\* C33: Delete(dataset, id) with no skip flags and dry_run = false performs
\* its effects in this order: verify prerequisites; save a manifest with id
\* moved from backups to orphans[StartedDeletion]; remove the remote object;
\* save a manifest without the orphan; release the hold; destroy the local
\* snapshot.  The FSM moves one state at a time, each effect happens in its
\* own step and in no other, on success id is a key of neither map, the
\* remote object is absent and the local snapshot destroyed, and the local
\* snapshot is not destroyed while the manifest object lists id.
C33_DeleteOrder ==
  [][(InPlainDelete /\ pc' # "idle") =>
       LET id == dfsm.backup.id
           key == <<dfsm.dataset, dfsm.backup.id>>
           from == dfsm.state
           to == dfsm'.state
       IN /\ to = from \/ DeleteOrd(to) = DeleteOrd(from) + 1
          /\ manifest' # manifest => to \in {"orphaned", "updated_store"} /\ to # from
          /\ remote' # remote => to = "remote_removed" /\ to # from
          /\ snaps' # snaps =>
               /\ to = "local_removed" /\ to # from
               /\ Unlisted(manifest, id)
          /\ (to = "orphaned" /\ to # from) =>
               /\ id \notin DOMAIN manifest'.backups
               /\ id \in DOMAIN manifest'.orphans
               /\ manifest'.orphans[id].reason = OrphanReasonStartedDeletion
               /\ remote' = remote /\ snaps' = snaps
          /\ (to = "remote_removed" /\ to # from) => remote'[key] = "absent"
          /\ (to = "updated_store" /\ to # from) =>
               /\ Unlisted(manifest', id)
               /\ remote'[key] = "absent" /\ snaps' = snaps
          /\ (to = "local_removed" /\ to # from) => key \notin snaps'
          /\ to = "completed" =>
               /\ Unlisted(manifest', id) /\ Unlisted(store', id)
               /\ remote'[key] = "absent"
               /\ key \notin snaps']_vars

\* A Delete of a backup with no skip flags has run to its end: the backup
\* has gone from the manifest, the object store and the pool.
C33_Witness ==
  /\ run.op = "delete" /\ run.opts \in NoSkipOpts /\ ~run.opts.dryRun
  /\ dfsm.state = "completed" /\ ~dfsm.orphan
  /\ Unlisted(manifest, dfsm.backup.id)
  /\ remote[<<dfsm.dataset, dfsm.backup.id>>] = "absent"
  /\ <<dfsm.dataset, dfsm.backup.id>> \notin snaps

\* ---------------------------------------------------------------------
\* force-destroy: Runner.DeleteRecursive on a repository with valid chains,
\* every backup with its remote object and its local snapshot.
ChainBackups(ids) ==
  {bs \in UNION {
       {[i \in S |-> [id |-> i, kind |-> k[i], created_at |-> 1, depends_on |-> d[i],
                      dataset |-> "d1", size |-> StreamedBytes]] :
          k \in [S -> BackupTypes], d \in [S -> {NoID} \cup IDs]} :
       S \in SUBSET ids} :
     \A i \in DOMAIN bs : BackupsValidate(bs, i, 1) = "ok"}

InitForceDestroy ==
  /\ \E bs \in ChainBackups(IDs) :
       /\ store = [NewStore(<<"d1">>) EXCEPT !.backups = bs]
       /\ remote = [k \in Datasets \X IDs |->
                      IF k[1] = "d1" /\ k[2] \in DOMAIN bs THEN "complete" ELSE "absent"]
       /\ snaps = {<<"d1", i>> : i \in DOMAIN bs}
  /\ manifest = store
  /\ pc = "ready"
  /\ run = NoRun
  /\ fsms = <<>>
  /\ bi = 0
  /\ dfsm = NoDfsm
  /\ dq = <<>>
  /\ result = NoResult
  /\ pre = manifest
  /\ intr = NoIntr
  /\ nextId = 1
  /\ clock = 1
  /\ budget = [left |-> MaxUpsets, flags |-> {}]

\* The sequences of Delete calls DeleteRecursive(id) can issue on bs: for
\* each child of GetChildren(id), in the order the range over the map yields
\* them, those of DeleteRecursive(child), then Delete(id).  ChildOrders(bs, q)
\* are those of the loop over the children q.
RECURSIVE PostOrders(_, _)
RECURSIVE ChildOrders(_, _)
\* DeleteRecursive that deletes id before its children.
PreOrders(bs, id) ==
  {<<id>> \o a : a \in UNION {ChildOrders(bs, q) : q \in Orders(GetChildren(bs, id))}}

PostOrders(bs, id) ==
  {a \o <<id>> : a \in UNION {ChildOrders(bs, q) : q \in Orders(GetChildren(bs, id))}}

ChildOrders(bs, q) ==
  IF q = <<>> THEN {<<>>}
  ELSE {a \o b : a \in PostOrders(bs, Head(q)), b \in ChildOrders(bs, Tail(q))}

\* The force-destroy command: Runner.DeleteRecursive(dataset, id, opts) on a
\* backup of store.backups; order is the sequence of its Delete calls.  root
\* and bs0 record the id and the backups it was called on, issued the Deletes
\* issued so far.
DeleteRecursive(id, opts, order) ==
  /\ pc = "ready"
  /\ Skip(opts)
  /\ id \in DOMAIN store.backups
  /\ ~opts.dryRun
  /\ order \in PostOrders(store.backups, id)
  /\ run' = [op |-> "delete_recursive", opts |-> opts, root |-> id,
             bs0 |-> store.backups, issued |-> <<>>]
  /\ dq' = order
  /\ pc' = "driver"
  /\ intr' = NoIntr
  /\ UNCHANGED <<store, manifest, remote, snaps, fsms, bi, dfsm, result, pre,
                 nextId, clock>>

NextForceDestroy ==
  \/ \E id \in DOMAIN store.backups, opts \in DeleteOptsSet :
       \E order \in PostOrders(store.backups, id) : DeleteRecursive(id, opts, order)
  \/ DriverReturn
  \/ DeleteBegin
  \/ VerifyPrerequisites
  \/ ForceSkipPrerequisites
  \/ DoNotOrphan
  \/ \E putOk \in BOOLEAN : Orphan(putOk)
  \/ SkipRemoveRemote
  \/ \E ioOk \in BOOLEAN : RemoveRemote(ioOk)
  \/ \E putOk \in BOOLEAN : DeleteUpdateStore(putOk)
  \/ SkipLocalRemoval
  \/ ReleaseSnapshot
  \/ \E ioOk \in BOOLEAN : RemoveLocal(ioOk)
  \/ DeleteComplete

SpecForceDestroy == InitForceDestroy /\ [][NextForceDestroy]_vars

\* c is a child, or a child of a child, of a in the backups bs.
IsDescendant(bs, c, a) ==
  /\ c \in DOMAIN bs
  /\ \/ bs[c].depends_on = a
     \/ /\ bs[c].depends_on \in DOMAIN bs
        /\ bs[bs[c].depends_on].depends_on = a

\* The IDs of the sequence q.
Issued(q) == {q[i] : i \in DOMAIN q}

\* C34: DeleteRecursive(dataset, id, opts) is a post-order traversal: a
\* Delete is issued for a backup only after one was issued for each of its
\* transitive children, only for id and its transitive children, and for id
\* last; with no skip flags it never fails the prerequisite check; when it
\* returns success every one of them was issued and, with no skip flags,
\* none of them is left in store.backups; and after a failure no backup that
\* a Delete was not issued for has been touched: it is still in
\* store.backups and in the manifest object, with its remote object and its
\* local snapshot.
C34_PostOrder ==
  [][run.op = "delete_recursive" =>
       LET family == {run.root} \cup
                       {c \in DOMAIN run.bs0 : IsDescendant(run.bs0, c, run.root)}
       IN /\ (pc = "driver" /\ pc' = "delete") =>
               /\ Head(dq) \in family \ Issued(run.issued)
               /\ \A c \in DOMAIN run.bs0 :
                    IsDescendant(run.bs0, c, Head(dq)) => c \in Issued(run.issued)
          /\ (pc' = "done" /\ pc # "done" /\ result'.ok) =>
               /\ Issued(run.issued) = family
               /\ run.issued[Len(run.issued)] = run.root
               /\ run.opts \in NoSkipOpts => family \cap DOMAIN store'.backups = {}
          /\ (pc' = "done" /\ pc # "done" /\ ~result'.ok) =>
               /\ run.opts \in NoSkipOpts => result'.err # "HasDependentBackups"
               /\ \A a \in family \ Issued(run'.issued) :
                    /\ a \in DOMAIN store'.backups /\ a \in DOMAIN manifest'.backups
                    /\ remote'[<<"d1", a>>] = "complete"
                    /\ <<"d1", a>> \in snaps']_vars

\* DeleteRecursive on a Full with a Diff and an Incr on it, no skip flags,
\* has returned success after three Deletes.
C34_Witness ==
  /\ run.op = "delete_recursive" /\ pc = "done" /\ result.ok
  /\ run.opts \in NoSkipOpts /\ Len(run.issued) = 3
  /\ run.bs0[run.issued[1]].kind = BackupTypeIncr
  /\ run.bs0[run.issued[2]].kind = BackupTypeDiff
  /\ run.bs0[run.issued[3]].kind = BackupTypeFull
  /\ DOMAIN store.backups = {}

\* DeleteRecursive has failed in the Delete of a child: the parent is
\* untouched.
C34_ChildFailedReached ==
  /\ run.op = "delete_recursive" /\ pc = "done" /\ ~result.ok
  /\ run.issued # <<>> /\ run.root \notin Issued(run.issued)
  /\ run.root \in DOMAIN manifest.backups

\* ---------------------------------------------------------------------
\* FSM.Run called on one FSM by several goroutines at once.  run.lock is the
\* goroutine holding f.lock (0: none), run.ctx the context they share,
\* run.g each goroutine's position in Run (at), its action, the state it
\* found when it got the lock (saw), its retry runner's counter and the
\* error its Run returned; dfsm is f.current.
MaxCallers == 2
Callers == 1..MaxCallers

InitConcurrentRun ==
  /\ store = NewStore(<<"d1">>) /\ manifest = store
  /\ remote = [k \in Datasets \X IDs |-> "absent"]
  /\ snaps = {}
  /\ pc = "concurrent"
  /\ run = [op |-> "concurrent", lock |-> 0, ctx |-> "live",
            g |-> [p \in Callers |-> [at |-> "idle", action |-> "none", saw |-> "none",
                                       retry |-> 0, err |-> "none"]]]
  /\ fsms = <<>>
  /\ bi = 0
  /\ \E st \in {"initial", "parent_snapshot_exists"} :
       dfsm = [state |-> st, terminal |-> FALSE]
  /\ dq = <<>>
  /\ result = NoResult
  /\ pre = manifest
  /\ intr = NoIntr
  /\ nextId = 1
  /\ clock = 1
  /\ budget = [left |-> MaxUpsets, flags |-> {}]

ConcurrentRest ==
  <<store, manifest, remote, snaps, pc, fsms, bi, dq, result, pre, intr, nextId,
    clock, budget>>

\* A goroutine calls f.Run(ctx, action).
GoRun(p, action) ==
  /\ run.op = "concurrent" /\ run.g[p].at = "idle"
  /\ run' = [run EXCEPT !.g[p].at = "locking", !.g[p].action = action]
  /\ UNCHANGED dfsm
  /\ UNCHANGED ConcurrentRest

\* f.lock.Lock() that does not wait for the holder.
LockNoWait(p) ==
  /\ run.op = "concurrent" /\ run.g[p].at = "locking"
  /\ run' = [run EXCEPT !.lock = p, !.g[p].at = "locked", !.g[p].saw = dfsm.state]
  /\ UNCHANGED dfsm
  /\ UNCHANGED ConcurrentRest

\* f.lock.Lock(): returns when no goroutine holds the lock.
Lock(p) ==
  /\ run.op = "concurrent" /\ run.g[p].at = "locking"
  /\ run.lock = 0
  /\ run' = [run EXCEPT !.lock = p, !.g[p].at = "locked", !.g[p].saw = dfsm.state]
  /\ UNCHANGED dfsm
  /\ UNCHANGED ConcurrentRest

\* Run returns err; the deferred f.lock.Unlock() runs.
Unlocked(p, err) ==
  [run EXCEPT !.lock = IF @ = p THEN 0 ELSE @,
              !.g[p].at = "returned", !.g[p].err = err]

\* Run from the lock to its loop: terminal state, unknown action, From other
\* than the current state.
RunChecks(p) ==
  /\ run.op = "concurrent" /\ run.g[p].at = "locked"
  /\ LET a == run.g[p].action IN
     run' = IF dfsm.terminal THEN Unlocked(p, "Terminal")
            ELSE IF a \notin DOMAIN Transitions THEN Unlocked(p, "TransitionNotFound")
            ELSE IF Transitions[a].from # dfsm.state THEN Unlocked(p, "InvalidTransition")
            ELSE [run EXCEPT !.g[p].at = "top"]
  /\ UNCHANGED dfsm
  /\ UNCHANGED ConcurrentRest

\* The select at the top of the loop, and the call of transition.Run.
RunAttempt(p) ==
  /\ run.op = "concurrent" /\ run.g[p].at = "top"
  /\ run' = IF run.ctx = "cancelled" THEN Unlocked(p, "Cancelled")
            ELSE [run EXCEPT !.g[p].at = "running"]
  /\ UNCHANGED dfsm
  /\ UNCHANGED ConcurrentRest

\* transition.Run returns: nil advances the state and Run returns nil; an
\* error goes to the select and to RetryAfter, and Run sleeps and loops or
\* returns the error.
RunAttemptEnds(p, outcome) ==
  /\ run.op = "concurrent" /\ run.g[p].at = "running"
  /\ IF outcome = "ok"
     THEN /\ dfsm' = [dfsm EXCEPT !.state = Transitions[run.g[p].action].to]
          /\ run' = Unlocked(p, "none")
     ELSE /\ UNCHANGED dfsm
          /\ LET ra == RetryAfter(run.g[p].retry, RetriesBound,
                                  outcome = "unrecoverable", outcome) IN
             run' = IF run.ctx = "cancelled" THEN Unlocked(p, "Cancelled")
                    ELSE IF ra.again
                    THEN [run EXCEPT !.g[p].at = "top", !.g[p].retry = ra.retry]
                    ELSE Unlocked(p, ra.err)
  /\ UNCHANGED ConcurrentRest

\* cancel() of the context
CancelCtx ==
  /\ run.op = "concurrent" /\ run.ctx = "live"
  /\ run' = [run EXCEPT !.ctx = "cancelled"]
  /\ UNCHANGED dfsm
  /\ UNCHANGED ConcurrentRest

NextConcurrentRun ==
  \/ \E p \in Callers, action \in FsmActions : GoRun(p, action)
  \/ \E p \in Callers : Lock(p)
  \/ \E p \in Callers : RunChecks(p)
  \/ \E p \in Callers : RunAttempt(p)
  \/ \E p \in Callers, outcome \in {"ok", "recoverable", "unrecoverable"} :
       RunAttemptEnds(p, outcome)
  \/ CancelCtx

SpecConcurrentRun == InitConcurrentRun /\ [][NextConcurrentRun]_vars

\* The goroutines that are inside Run past f.lock.Lock().
InsideRun == {p \in Callers : run.g[p].at \in {"locked", "top", "running"}}

\* C35: FSM execution is serialized per FSM instance: of the Run calls
\* issued concurrently on one FSM at most one is past the lock, so that
\* transition functions never execute at the same time; the current state
\* changes only by a step of the call that is inside, so that the next call
\* finds the state the previous one left; and of two Runs of the same
\* action at most one advances the state: a call that does not find the
\* state the action starts from is rejected.
C35_RunSerialized ==
  [][run.op = "concurrent" =>
       /\ Cardinality(InsideRun') <= 1
       /\ dfsm' # dfsm => \E p \in InsideRun : run'.g[p] # run.g[p]
       /\ \A p \in Callers :
            (run'.g[p].at = "returned" /\ run.g[p].at # "returned") =>
              /\ (run.g[p].action \in DOMAIN Transitions
                    /\ run.g[p].saw # Transitions[run.g[p].action].from)
                   => run'.g[p].err = "InvalidTransition"
              /\ run'.g[p].err = "none" =>
                   /\ run.g[p].saw = Transitions[run.g[p].action].from
                   /\ dfsm.state = run.g[p].saw
                   /\ \A q \in Callers \ {p} :
                        (run.g[q].at = "returned" /\ run.g[q].action = run.g[p].action)
                          => run.g[q].err # "none"]_vars

\* Two goroutines have called Run with the same action at the same time:
\* one has advanced the state, the other was rejected.
C35_Witness ==
  /\ run.op = "concurrent"
  /\ \E p, q \in Callers :
       /\ p # q /\ run.g[p].action = run.g[q].action
       /\ run.g[p].at = "returned" /\ run.g[p].err = "none"
       /\ run.g[q].at = "returned" /\ run.g[q].err = "InvalidTransition"
       /\ run.g[q].saw = dfsm.state

\* A goroutine waits at the lock while another runs the transition
\* function.
C35_WaitingReached ==
  /\ run.op = "concurrent"
  /\ \E p, q \in Callers : run.g[p].at = "running" /\ run.g[q].at = "locking"

\* depends_on of backup i, NoID when i is not a backup of bs
ParentOf(bs, i) == IF i \in DOMAIN bs THEN bs[i].depends_on ELSE NoID

\* C36: Backups.Validate terminates on every backups map, those whose
\* depends_on references form a cycle or a self-reference included, after
\* looking up at most three backups, none of them twice; and in a store
\* that passes Validate the parent relation is acyclic with chains of at
\* most two edges: the parent of the parent of a backup has no parent.
C36_ValidateTerminates ==
  (pc = "done" /\ result.op = "validate") =>
    /\ \A i \in IDs :
         LET v == result.visits[i] IN
           /\ Len(v) >= 1 /\ Len(v) <= 3
           /\ \A m, n \in 1..Len(v) : m # n => v[m] # v[n]
           /\ \A m \in 1..(Len(v) - 1) : v[m + 1] = ParentOf(store.backups, v[m])
    /\ result.ok =>
         \A i \in DOMAIN store.backups :
           LET p1 == ParentOf(store.backups, i)
               p2 == ParentOf(store.backups, p1) IN
             /\ p1 # i /\ p2 # i
             /\ p1 # NoID => p1 \in DOMAIN store.backups
             /\ p2 # NoID => p2 \in DOMAIN store.backups
             /\ ParentOf(store.backups, p2) = NoID

\* Validate has returned on a map with a backup that depends on itself and
\* two backups that depend on each other.
C36_Witness ==
  /\ pc = "done" /\ result.op = "validate"
  /\ \E i, j, k \in DOMAIN store.backups :
       /\ j # k /\ i # j /\ i # k
       /\ store.backups[i].depends_on = i
       /\ store.backups[j].depends_on = k /\ store.backups[k].depends_on = j
       /\ store.backups[i].kind = BackupTypeIncr
       /\ store.backups[j].kind = BackupTypeIncr
       /\ store.backups[k].kind = BackupTypeIncr
       /\ result.each[i] = "ErrIncrBackupParentNotDiff"
       /\ result.each[j] = "ErrIncrBackupParentNotDiff"

\* Validate has accepted a store with a chain of two edges, and looked up
\* three backups for its Incr.
C36_LongestChainReached ==
  /\ pc = "done" /\ result.op = "validate" /\ result.ok
  /\ \E i \in IDs : Len(result.visits[i]) = 3

\* An expired sweep with no skip flag and dry_run = true.
DrySweep ==
  /\ run.op = "delete_all_expired"
  /\ SkipFlags(run.opts) = {} /\ run.opts.dryRun

\* C37: a dry run predicts the real run.  The expired sweep with no skip
\* flag and dry_run = false returns nil when nothing fails (C15), so the
\* same sweep with dry_run = true returns nil, on a store with an expired
\* Full and its expired Diff and Incr in particular.
C37_DryRunPredictsRealRun ==
  (DrySweep /\ pc = "done" /\ budget.left = run.left0) => result.ok

\* The dry sweep changes nothing and fails in one way only: with the
\* prerequisite check of a backup whose expired child it has just reported
\* as deleted.
C37_DryRunFailsOnChildOnly ==
  (DrySweep /\ pc = "done" /\ budget.left = run.left0 /\ ~result.ok) =>
    /\ result.err = "HasDependentBackups"
    /\ store.backups = run.bs0
    /\ Len(run.issued) >= 2
    /\ LET last == run.issued[Len(run.issued)] IN
         \E k \in 1..(Len(run.issued) - 1) :
           run.bs0[run.issued[k]].depends_on = last

\* The dry sweep of a store with an expired Full and its Diff and Incr has
\* failed at the Diff, after the dry run of the Incr.
C37_ChainDrySweepFailedReached ==
  /\ DrySweep /\ pc = "done" /\ budget.left = run.left0 /\ ~result.ok
  /\ result.err = "HasDependentBackups"
  /\ Cardinality(DOMAIN store.backups) = 3
  /\ \A i \in DOMAIN store.backups :
       Expired(store.backups, i, run.expiry, clock).value
  /\ Len(run.issued) = 2
  /\ store.backups[run.issued[1]].kind = BackupTypeIncr
  /\ store.backups[run.issued[2]].kind = BackupTypeDiff
  /\ store.backups[run.issued[1]].depends_on = run.issued[2]

\* The upload_snapshot transition of some dataset of the running backup has
\* failed for good.
UploadHasFailed ==
  /\ run.op = "backup" /\ pc \in {"backup1", "pool", "upload", "backup2", "done"}
  /\ \E i \in DOMAIN fsms : fsms[i].up = "failed"

\* C38: if the upload_snapshot transition of a dataset fails after its
\* retries, the remaining uploads still run to their end, BackupConcurrent
\* returns an error, and no FSM of the run executes update_store: the
\* backups of the store and of the manifest object are those the run
\* started with, and every dataset of the run, those whose upload succeeded
\* included, is an Uncommitted orphan.
C38_UploadFailureCommitsNothing ==
  UploadHasFailed =>
    /\ pc \in {"upload", "done"}
    /\ \A i \in DOMAIN fsms :
         /\ fsms[i].state \in {"added_orphan", "uploaded_snapshot"}
         /\ fsms[i].id \in DOMAIN store.orphans
         /\ fsms[i].id \in DOMAIN manifest.orphans
         /\ manifest.orphans[fsms[i].id].reason = OrphanReasonUncommitted
         /\ manifest.orphans[fsms[i].id].backup.dataset = fsms[i].dataset
         /\ fsms[i].id \notin DOMAIN manifest.backups
    /\ store.backups = pre.backups
    /\ manifest.backups = pre.backups
    /\ pc = "done" =>
         /\ ~result.ok /\ result.err = "UploadFailed"
         /\ \A i \in DOMAIN fsms : fsms[i].up \in {"done", "failed"}

\* BackupConcurrent has returned the error of a failed upload after the
\* upload of another dataset, started after the failure, has succeeded.
C38_Witness ==
  /\ UploadHasFailed /\ pc = "done" /\ ~result.ok
  /\ \E i, j \in DOMAIN fsms :
       /\ fsms[i].up = "failed" /\ fsms[j].up = "done"
       /\ fsms[j].state = "uploaded_snapshot"
       /\ remote[<<fsms[j].dataset, fsms[j].id>>] = "complete"
       /\ fsms[j].id \in DOMAIN manifest.orphans

\* An upload is still queued after another one has failed.
C38_QueuedAfterFailureReached ==
  /\ UploadHasFailed /\ pc = "upload"
  /\ \E j \in DOMAIN fsms : fsms[j].up = "queued"

\* BackupConcurrent has returned the error of a step of its first
\* sequential loop, run for fsms[bi].
Phase1Failed ==
  /\ pc = "done" /\ result.op = "backup" /\ ~result.ok
  /\ bi \in DOMAIN fsms
  /\ fsms[bi].state \in {"initial", "got_parent", "created_snapshot",
                          "created_backup_manifest"}

\* C39: if get_parent, create_snapshot, create_backup_manifest or
\* add_orphan fails for the i-th dataset, BackupConcurrent returns that
\* error without starting any upload and without running any step for the
\* later datasets; the Uncommitted orphans saved for the datasets before it
\* stay in the manifest object and no backup is added.
C39_Phase1FailureStopsRun ==
  /\ Phase1Failed =>
       /\ result.err \in {"ErrParentBackupNotFound", "ParentSnapshotMissing",
                           "SanityCheckFailed", "AddOrphanFailed",
                           "RetryAttemptsExhausted"}
       /\ \A j \in DOMAIN fsms :
            /\ fsms[j].up = "queued"
            /\ remote[<<fsms[j].dataset, fsms[j].id>>] = "absent"
            /\ fsms[j].id \notin DOMAIN manifest.backups
            /\ j > bi =>
                 /\ fsms[j] = NewBackupFSM(fsms[j].dataset, fsms[j].id, run.kind)
                 /\ <<fsms[j].dataset, fsms[j].id>> \notin snaps
                 /\ fsms[j].id \notin DOMAIN manifest.orphans
            /\ j < bi =>
                 /\ fsms[j].state = "added_orphan"
                 /\ fsms[j].id \in DOMAIN manifest.orphans
                 /\ manifest.orphans[fsms[j].id].reason = OrphanReasonUncommitted
       /\ manifest.backups = pre.backups
       /\ store.backups = pre.backups
  /\ (pc = "backup1" /\ run.op = "backup") =>
       \A j \in DOMAIN fsms :
         /\ fsms[j].up = "queued"
         /\ j > bi => fsms[j].state = "initial"
         /\ j < bi => fsms[j].state = "added_orphan"

\* A step of the second of two datasets has failed: the first dataset's
\* orphan is in the manifest object and nothing was uploaded.
C39_Witness ==
  /\ Phase1Failed /\ bi = 2
  /\ fsms[1].id \in DOMAIN manifest.orphans
  /\ fsms[1].up = "queued"

\* A step of the first of two datasets has failed: nothing was done for the
\* second.
C39_FirstFailedReached ==
  /\ Phase1Failed /\ bi = 1 /\ Len(fsms) = 2
  /\ manifest.orphans = pre.orphans

\* C40: the retry budget is per Run call.  Every Run starts with a fresh
\* runner, whatever the runners of the earlier Runs of the FSM have
\* granted: the k-th wait of a Run is the one of a runner that has granted
\* k - 1 retries, and a Run returns RetryAttemptsExhausted after
\* MaxRetries + 1 attempts of its own transition and not before.
C40_RetryBudgetPerRun ==
  (run.op = "fsm" /\ pc \in {"top", "attempt", "failed", "sleep", "done"}) =>
    /\ \A k \in 1..Len(run.waits) :
         run.waits[k] = RetryWait(k - 1, run.cfg.inc, run.cfg.maxWait)
    /\ pc # "done" =>
         /\ run.currentRetry = Len(run.waits)
         /\ run.attempts <= run.cfg.maxRetries + 1
         /\ pc = "top" => run.attempts = run.currentRetry
    /\ (pc = "done" /\ result.err = "RetryAttemptsExhausted") =>
         /\ run.attempts = run.cfg.maxRetries + 1
         /\ Len(run.waits) = run.cfg.maxRetries

\* After the runner of an earlier Run has granted retries, a Run of the
\* next transition has made all its attempts, with the waits of a fresh
\* runner, and returned RetryAttemptsExhausted.
C40_Witness ==
  /\ run.op = "fsm" /\ pc = "done" /\ run.prior
  /\ result.err = "RetryAttemptsExhausted"
  /\ dfsm.state = "parent_snapshot_exists"
  /\ run.cfg.maxRetries = RetriesBound
  /\ run.attempts = RetriesBound + 1
  /\ run.cfg.inc = 1 /\ run.cfg.maxWait = WaitBound
  /\ run.waits[1] = 1

====
